---- MODULE Spec2Model ----
(***************************************************************************)
(* Model of the interactive thread browser of gh-pr-review (src/tui.go)    *)
(* and of the pagination and filter helpers it uses (src/main.go).         *)
(*                                                                         *)
(* Go slices are modelled as references into a heap of backing arrays, so  *)
(* that two slices sharing storage (filterThreads with status "all"        *)
(* returns its argument) really share it in the model.                     *)
(***************************************************************************)
EXTENDS Integers, Sequences, FiniteSets, TLC

VARIABLES
    pc,        \* position: in runTUI "fetch", "returned", "exit", "filtered", "init", "tui", "quit",
               \* "panic"; "wrap" for a call of wrapPlainText on its own
    status,    \* runTUI's local `status` (the validated --status flag)
    all,       \* fetchAllThreads' accumulator `all`
    after,     \* fetchAllThreads' cursor variable `after`
    served,    \* the requests of this fetchAllThreads call (the cursor each carried) and the
               \* responses client.Do has produced for them, in order
    retErr,    \* the error fetchAllThreads returned to runTUI (NoErr = nil)
    fetched,   \* runTUI's local `threads`: the slice fetchAllThreads returned
    filtered,  \* runTUI's local `filtered`
    heap,      \* backing arrays of the []reviewThread slices
    styled,    \* newStyler(os.Stdout).enabled: a terminal without NO_COLOR
    faults,    \* how many calls into glamour have failed so far
    wrap,      \* a call of wrapPlainText: its arguments and its result
    info,      \* a call of formatLineInfo: its argument and its result
    args,      \* runTUI's --pr flag and local `pr`, and what `gh pr view` printed
    m          \* the tuiModel

vars == <<pc, status, all, after, served, retErr, fetched, filtered, heap, styled, faults, wrap,
         info, args, m>>

----------------------------------------------------------------------------
(* Bounds of the model *)

\* total number of threads one fetch may return
MaxThreads == 2
\* number of page requests one fetch may issue
MaxPages == 2
\* length of the argument of filterThreads in SpecFilter
MaxFilterLen == 3
\* thread identifiers filterThreads is applied to in SpecFilter
MaxID == 2
\* lines the scroll keys may move the viewport down
MaxScroll == 1
\* number of threads of the lists the browser is started on in SpecBrowser
MaxBrowse == 2
\* number of threads of the lists the browser is started on in SpecCache
MaxCached == 1
\* number of calls into glamour that fail in one session
MaxFaults == 1
\* number of pieces of the bodies wrapPlainText is applied to in SpecWrap
MaxTokens == 5
\* largest line number of the threads formatLineInfo is applied to in SpecInfo
MaxLine == 2
\* largest pull-request number --pr and the gh tool may give in SpecArgs
MaxPr == 2

----------------------------------------------------------------------------
(* Data *)

Statuses == {"all", "unresolved", "resolved", "resolved-no-reply"}

\* len(t.Comments.Nodes); 2 stands for any thread that has a reply
CommentCounts == {0, 1, 2}

\* the part of reviewThread the browser's state depends on
Kinds == [isResolved : BOOLEAN, comments : CommentCounts]

mkThread(id, k) == [id |-> id, isResolved |-> k.isResolved, comments |-> k.comments]

\* the zero value of reviewThread (what make() leaves beyond a slice's length)
ZeroThread == [id |-> 0, isResolved |-> FALSE, comments |-> 0]

\* *string cursors: absent (nil), present and empty (val = 0), present and non-empty
NilCursor == [present |-> FALSE, val |-> 0]
EmptyCursor == [present |-> TRUE, val |-> 0]
cursorOf(k) == [present |-> TRUE, val |-> k]

NoErr == "nil"
Errors == {"err-network", "err-graphql"}

\* terminal geometries (columns, rows) the geometry probe and resize events report
TermSizes == {<<80, 24>>, <<40, 2>>}

\* an optional line number (*int): absent (nil) or present
NilLine == [present |-> FALSE, val |-> 0]

lineOf(n) == [present |-> TRUE, val |-> n]

\* no call of formatLineInfo
NoInfo == [path |-> <<>>, startLine |-> NilLine, line |-> NilLine, originalLine |-> NilLine,
           out |-> <<>>, done |-> FALSE]

\* runTUI before its flags are parsed
NoArgs == [statusFlag |-> <<>>, prFlag |-> 0, pr |-> 0, gh |-> <<>>]

\* no call of wrapPlainText
NoWrap == [body |-> <<>>, indent |-> <<>>, width |-> 0, out |-> <<>>, done |-> FALSE]

----------------------------------------------------------------------------
(* Slices and their backing arrays *)

ArrIds == 1..4

NilSlice == [arr |-> 0, len |-> 0]

NoArray == [live |-> FALSE, data |-> <<>>]

EmptyHeap == [a \in ArrIds |-> NoArray]

\* the elements of slice s
Elems(h, s) == IF s.arr = 0 THEN <<>> ELSE SubSeq(h[s.arr].data, 1, s.len)

\* a backing array make() or append() may hand out
FreshArr(h) == CHOOSE a \in ArrIds : ~h[a].live /\ \A b \in ArrIds : ~h[b].live => a <= b

\* a slice holding exactly the elements of sequence ts (nil when there are none,
\* as append onto a nil slice leaves it nil)
newSlice(h, ts) ==
    IF ts = <<>> THEN [heap |-> h, slice |-> NilSlice]
    ELSE LET a == FreshArr(h)
         IN [heap |-> [h EXCEPT ![a] = [live |-> TRUE, data |-> ts]],
             slice |-> [arr |-> a, len |-> Len(ts)]]

\* garbage collection: arrays no slice in `roots` refers to are gone
Collect(h, roots) ==
    [a \in ArrIds |-> IF \E s \in roots : s.arr = a THEN h[a] ELSE NoArray]

----------------------------------------------------------------------------
(* filterThreads, src/main.go:301-323 *)

\* a plausible slip: `< 1` for `<= 1` in the resolved-no-reply case
filterMatch_strict(t, st) ==
    CASE st = "resolved" -> t.isResolved
      [] st = "unresolved" -> ~t.isResolved
      [] st = "resolved-no-reply" -> t.isResolved /\ t.comments < 1
      [] OTHER -> FALSE

\* the switch of the loop body: whether thread t is appended under `st`
filterMatch(t, st) ==
    CASE st = "resolved" -> t.isResolved
      [] st = "unresolved" -> ~t.isResolved
      [] st = "resolved-no-reply" -> t.isResolved /\ t.comments <= 1
      [] OTHER -> FALSE

\* the for loop: `acc` is the slice `filtered` built so far
RECURSIVE filterLoop(_, _, _)
filterLoop(ts, st, acc) ==
    IF ts = <<>> THEN acc
    ELSE filterLoop(Tail(ts), st,
                    IF filterMatch(Head(ts), st) THEN Append(acc, Head(ts)) ELSE acc)

\* a plausible slip: filtering in place (filtered := threads[:0]) writes the kept
\* elements over the argument's backing array
filterThreads_inplace(h, threads, st) ==
    IF st = "all" THEN [heap |-> h, slice |-> threads]
    ELSE IF threads.arr = 0 THEN [heap |-> h, slice |-> NilSlice]
    ELSE LET keep == filterLoop(Elems(h, threads), st, <<>>)
             old == h[threads.arr].data
         IN [heap |-> [h EXCEPT ![threads.arr].data =
                            keep \o SubSeq(old, Len(keep) + 1, Len(old))],
             slice |-> [arr |-> threads.arr, len |-> Len(keep)]]

\* "all" returns the argument itself; every other status fills a new array of
\* capacity len(threads) made by make([]reviewThread, 0, len(threads))
filterThreads(h, threads, st) ==
    IF st = "all" THEN [heap |-> h, slice |-> threads]
    ELSE LET keep == filterLoop(Elems(h, threads), st, <<>>)
             a == FreshArr(h)
             rest == [i \in 1..(threads.len - Len(keep)) |-> ZeroThread]
         IN [heap |-> [h EXCEPT ![a] = [live |-> TRUE, data |-> keep \o rest]],
             slice |-> [arr |-> a, len |-> Len(keep)]]

----------------------------------------------------------------------------
(* fetchAllThreads, src/main.go:246-299 *)

\* the threads of one page: identifiers follow the position in the whole listing
pageNodes(base, ks) == [i \in 1..Len(ks) |-> mkThread(base + i, ks[i])]

\* what client.Do may produce for request number k when `room` more threads fit
\* the model's bound: an error, or a page of reviewThreads with its pageInfo
Responses(k, base, room) ==
    [err : Errors, nodes : {<<>>}, hasNextPage : {FALSE}, endCursor : {NilCursor}]
    \cup
    { r \in [err : {NoErr},
             nodes : UNION { {pageNodes(base, ks) : ks \in [1..n -> Kinds]} : n \in 0..room },
             hasNextPage : BOOLEAN,
             endCursor : {NilCursor, EmptyCursor, cursorOf(k)}] :
        \* the last request the bound allows is answered by a last page
        k = MaxPages => ~(r.hasNextPage /\ r.endCursor = cursorOf(k)) }

\* a plausible slip: the error of client.Do is dropped
failedDo_ignored(resp) == FALSE

\* line 285: client.Do returned an error
failedDo(resp) == resp.err # NoErr

\* a plausible slip: all = threads
appendPage_overwrite(acc, nodes) == nodes

\* line 289: all = append(all, threads...)
appendPage(acc, nodes) == acc \o nodes

\* a plausible slip: the loop without the cursor check of lines 293-296
lastPage_trustsFlag(resp) == ~resp.hasNextPage

\* lines 290-296: the two breaks of the loop
lastPage(resp) ==
    \/ ~resp.hasNextPage
    \/ ~resp.endCursor.present
    \/ resp.endCursor.val = 0

\* a plausible slip: the cursor of the loop is never advanced
nextCursor_stale(resp) == NilCursor

\* line 293: after = ...PageInfo.EndCursor
nextCursor(resp) == resp.endCursor

\* one iteration of the for loop, for the response `resp` of its request; the
\* request is logged with the cursor it carried
fetchAllThreads(resp) ==
    /\ served' = Append(served, [after |-> after, err |-> resp.err, nodes |-> resp.nodes,
                                 hasNextPage |-> resp.hasNextPage,
                                 endCursor |-> resp.endCursor])
    /\ IF failedDo(resp)
       THEN \* return nil, err
            /\ retErr' = resp.err
            /\ fetched' = NilSlice
            /\ heap' = heap
            /\ all' = <<>>
            /\ after' = NilCursor
            /\ pc' = "returned"
       ELSE LET acc == appendPage(all, resp.nodes)
            IN IF lastPage(resp)
               THEN \* break; return all, nil
                    LET r == newSlice(heap, acc)
                    IN /\ retErr' = NoErr
                       /\ fetched' = r.slice
                       /\ heap' = r.heap
                       /\ all' = <<>>
                       /\ after' = NilCursor
                       /\ pc' = "returned"
               ELSE /\ all' = acc
                    /\ after' = nextCursor(resp)
                    /\ pc' = "fetch"
                    /\ UNCHANGED <<retErr, fetched, heap, info, args>>
    /\ UNCHANGED <<status, filtered, styled, faults, wrap, m, info, args>>

FetchPage ==
    /\ pc = "fetch"
    /\ Len(served) < MaxPages
    /\ \E resp \in Responses(Len(served) + 1, Len(all), MaxThreads - Len(all)) :
          fetchAllThreads(resp)

----------------------------------------------------------------------------
(* runTUI after the fetch, src/tui.go:83-92, and newTUIModel, src/tui.go:95-107 *)

\* the viewport's fields are vpWidth, vpHeight, vpKeys (it has a key map),
\* content and yOffset; the caches are empty maps
ZeroModel ==
    [allThreads |-> NilSlice, threads |-> NilSlice, index |-> 0,
     width |-> 0, height |-> 0, ready |-> FALSE,
     vpWidth |-> 0, vpHeight |-> 0, vpKeys |-> FALSE,
     content |-> [kind |-> "blank", thread |-> ZeroThread, width |-> 0, how |-> <<>>],
     yOffset |-> 0,
     status |-> "", contentCache |-> {}, rendererCache |-> {}]

newTUIModel(st, threads) ==
    [ZeroModel EXCEPT !.allThreads = threads, !.threads = threads,
                      !.index = 0, !.status = st]

\* lines 84-86: if err != nil { return err }
ReturnErr ==
    /\ pc = "returned"
    /\ retErr # NoErr
    /\ pc' = "exit"
    /\ UNCHANGED <<status, all, after, served, retErr, fetched, filtered, heap, styled, faults, wrap, m, info, args>>

\* line 87: filtered := filterThreads(threads, status)
RunFilter ==
    /\ pc = "returned"
    /\ retErr = NoErr
    /\ LET r == filterThreads(heap, fetched, status)
       IN /\ filtered' = r.slice
          /\ heap' = r.heap
    /\ pc' = "filtered"
    /\ served' = <<>>
    /\ UNCHANGED <<status, all, after, retErr, fetched, styled, faults, wrap, m, info, args>>

\* lines 89-90: model := newTUIModel(owner, name, pr, status, filtered)
NewModel ==
    /\ pc = "filtered"
    /\ m' = newTUIModel(status, filtered)
    /\ pc' = "init"
    /\ UNCHANGED <<status, all, after, served, retErr, fetched, filtered, heap, styled, faults, wrap, info, args>>

----------------------------------------------------------------------------
(* The rendered content of a thread, src/tui.go:316-417 *)

\* what a string shown in the viewport is, as far as the browser can tell:
\* the empty string, the no-threads message, or the rendering of `thread` at
\* `width` columns, comment i having been produced by engine how[i]
BlankContent == [kind |-> "blank", thread |-> ZeroThread, width |-> 0, how |-> <<>>]

NoThreadsContent == [kind |-> "none", thread |-> ZeroThread, width |-> 0, how |-> <<>>]

renderedContent(thread, width, how) ==
    IF thread.comments = 0 THEN BlankContent
    ELSE [kind |-> "thread", thread |-> thread, width |-> width, how |-> how]

\* line 323: the width used while the viewport has none
defaultWidth == 120

\* line 378: the narrowest renderer
minRendererWidth == 20

\* a nil *glamour.TermRenderer
nilRenderer == 0

\* lines 321-324: the width threadContent renders at
effectiveWidth(mm) == IF mm.vpWidth <= 0 THEN defaultWidth ELSE mm.vpWidth

\* a plausible slip: the two keys of the nested map taken in the wrong order
cachedContent_swappedKeys(mm, threadID, width) ==
    IF threadID = 0 THEN BlankContent
    ELSE IF \E e \in mm.contentCache : e.id = width /\ e.width = threadID
    THEN (CHOOSE e \in mm.contentCache : e.id = width /\ e.width = threadID).content
    ELSE BlankContent

\* cachedContent: "" (BlankContent) for an empty thread ID or a missing entry
cachedContent(mm, threadID, width) ==
    IF threadID = 0 THEN BlankContent
    ELSE IF \E e \in mm.contentCache : e.id = threadID /\ e.width = width
    THEN (CHOOSE e \in mm.contentCache : e.id = threadID /\ e.width = width).content
    ELSE BlankContent

\* a plausible slip: a fresh per-thread map on every store
storeContent_freshMap(mm, threadID, width, content) ==
    IF threadID = 0 THEN mm
    ELSE [mm EXCEPT !.contentCache =
              {e \in @ : e.id # threadID}
              \cup {[id |-> threadID, width |-> width, content |-> content]}]

\* a plausible slip: content with a plain-text body is not kept
storeContent_markdownOnly(mm, threadID, width, content) ==
    IF threadID = 0 \/ \E j \in DOMAIN content.how : content.how[j] = "plain" THEN mm
    ELSE [mm EXCEPT !.contentCache =
              {e \in @ : ~(e.id = threadID /\ e.width = width)}
              \cup {[id |-> threadID, width |-> width, content |-> content]}]

\* storeContent: nothing for an empty thread ID
storeContent(mm, threadID, width, content) ==
    IF threadID = 0 THEN mm
    ELSE [mm EXCEPT !.contentCache =
              {e \in @ : ~(e.id = threadID /\ e.width = width)}
              \cup {[id |-> threadID, width |-> width, content |-> content]}]

\* lines 378-380: the width a renderer is made and kept for
rendererWidth(width) == IF width < minRendererWidth THEN minRendererWidth ELSE width

\* The calls into glamour (NewTermRenderer, Render) may succeed or fail; the
\* operators that make them give the set of their possible results.

\* a plausible slip: the constructed renderer is returned but not kept
rendererForWidth_noStore(mm, width) ==
    LET w == rendererWidth(width)
    IN IF w \in mm.rendererCache THEN {[m |-> mm, renderer |-> w, faults |-> 0]}
       ELSE {[m |-> mm, renderer |-> nilRenderer, faults |-> 1],
             [m |-> mm, renderer |-> w, faults |-> 0]}

\* rendererForWidth: the model with its renderer cache, the renderer (its
\* width) or nilRenderer, and the number of failed calls
rendererForWidth(mm, width) ==
    LET w == rendererWidth(width)
    IN IF w \in mm.rendererCache THEN {[m |-> mm, renderer |-> w, faults |-> 0]}
       ELSE {[m |-> mm, renderer |-> nilRenderer, faults |-> 1],
             [m |-> [mm EXCEPT !.rendererCache = @ \cup {w}], renderer |-> w,
              faults |-> 0]}

\* a plausible slip: a failed Render leaves the comment without a body
formatCommentBodyWithRenderer_noFallback(enabled, renderer) ==
    IF enabled /\ renderer # nilRenderer THEN {"markdown", "error"} ELSE {"plain"}

\* formatCommentBodyWithRenderer: the engine that produces the lines of a body,
\* glamour ("markdown") or, when there is no renderer or Render fails,
\* wrapPlainText ("plain")
formatCommentBodyWithRenderer(enabled, renderer) ==
    IF enabled /\ renderer # nilRenderer THEN {"markdown", "plain"} ELSE {"plain"}

\* the Render calls that failed among those that produced `how`
renderFaults(enabled, renderer, how) ==
    IF enabled /\ renderer # nilRenderer
    THEN Cardinality({i \in DOMAIN how : how[i] # "markdown"})
    ELSE 0

\* threadContent: the model with its caches, the content, the number of calls
\* of formatCommentBodyWithRenderer, whether m.threads[m.index] panicked, and
\* the number of failed calls into glamour
threadContent(h, mm) ==
    IF mm.threads.len = 0
    THEN {[m |-> mm, content |-> NoThreadsContent, calls |-> 0, panic |-> FALSE,
           faults |-> 0]}
    ELSE IF mm.index < 0 \/ mm.index >= mm.threads.len
    THEN {[m |-> mm, content |-> BlankContent, calls |-> 0, panic |-> TRUE,
           faults |-> 0]}
    ELSE LET thread == Elems(h, mm.threads)[mm.index + 1]
             width == effectiveWidth(mm)
             cached == cachedContent(mm, thread.id, width)
         IN IF cached # BlankContent
            THEN {[m |-> mm, content |-> cached, calls |-> 0, panic |-> FALSE,
                   faults |-> 0]}
            ELSE UNION {
                   { [m |-> storeContent(rr.m, thread.id, width,
                                         renderedContent(thread, width, how)),
                      content |-> renderedContent(thread, width, how),
                      calls |-> thread.comments,
                      panic |-> FALSE,
                      faults |-> rr.faults + renderFaults(styled, rr.renderer, how)] :
                     how \in [1..thread.comments ->
                                 formatCommentBodyWithRenderer(styled, rr.renderer)] } :
                   rr \in rendererForWidth(mm, width) }

----------------------------------------------------------------------------
(* The viewport (github.com/charmbracelet/bubbles/viewport) as tui.go uses it *)

\* the number of lines of a content: one for "" and for the message; a comment
\* is at least its header line, a blank line and one body line, comments are
\* separated by a blank line and the final newline leaves an empty last line
lineCount(content) ==
    IF content.kind = "thread" THEN 4 * content.thread.comments ELSE 1

maxYOffset(mm) ==
    IF lineCount(mm.content) - mm.vpHeight > 0
    THEN lineCount(mm.content) - mm.vpHeight ELSE 0

\* viewport.SetContent: an offset beyond the last line goes to the bottom
SetContent(mm, content) ==
    LET m1 == [mm EXCEPT !.content = content]
    IN IF m1.yOffset > lineCount(content) - 1
       THEN [m1 EXCEPT !.yOffset = maxYOffset(m1)]
       ELSE m1

GotoTop(mm) == [mm EXCEPT !.yOffset = 0]

\* viewport.New(width, height)
newViewport(mm, width, height) ==
    [mm EXCEPT !.vpWidth = width, !.vpHeight = height, !.vpKeys = TRUE,
               !.content = BlankContent, !.yOffset = 0]

\* a plausible slip: the arrow keys wired to the thread index instead of the
\* viewport
viewportUpdate_movesIndex(mm, key) ==
    IF key = "down" THEN [mm EXCEPT !.index = @ + 1]
    ELSE IF key = "up" THEN [mm EXCEPT !.index = @ - 1]
    ELSE mm

\* viewport.Update for a key: the key map of a viewport made by New scrolls by
\* a line on up and down; the zero viewport has no key map
viewportUpdate(mm, key) ==
    IF ~mm.vpKeys THEN mm
    ELSE IF key = "down" /\ mm.yOffset < maxYOffset(mm)
    THEN [mm EXCEPT !.yOffset = @ + 1]
    ELSE IF key = "up" /\ mm.yOffset > 0
    THEN [mm EXCEPT !.yOffset = @ - 1]
    ELSE mm

----------------------------------------------------------------------------
(* tuiModel.Init, Update and View, src/tui.go:109-314 *)

headerLines == 2

footerLines == 1

\* a plausible slip: the height without its floor of one line
viewportHeight_noFloor(height) == height - headerLines - footerLines

\* lines 113-116 and 136-139
viewportHeight(height) ==
    IF height - headerLines - footerLines < 1 THEN 1
    ELSE height - headerLines - footerLines

\* the handlers below give the possible outcomes: the new model and whether
\* the handler panicked

unchangedModel(mm) == {[m |-> mm, panic |-> FALSE, faults |-> 0]}

\* a plausible slip: the content is set but the viewport is not sent to the top
showThread_keepScroll(h, mm) ==
    {[m |-> SetContent(r.m, r.content), panic |-> r.panic, faults |-> r.faults] :
        r \in threadContent(h, mm)}

\* m.viewport.SetContent(m.threadContent()); m.viewport.GotoTop()
showThread(h, mm) ==
    {[m |-> GotoTop(SetContent(r.m, r.content)), panic |-> r.panic, faults |-> r.faults] :
        r \in threadContent(h, mm)}

\* a plausible slip: the content is computed and cached but not handed to the
\* viewport
refreshThread_keepContent(h, mm) ==
    {[m |-> r.m, panic |-> r.panic, faults |-> r.faults] : r \in threadContent(h, mm)}

\* m.viewport.SetContent(m.threadContent())
refreshThread(h, mm) ==
    {[m |-> SetContent(r.m, r.content), panic |-> r.panic, faults |-> r.faults] :
        r \in threadContent(h, mm)}

\* Init: the model is sized from term.GetSize when the probe succeeds
tuiInit(h, mm, probe) ==
    IF probe.ok
    THEN refreshThread(h,
             [newViewport([mm EXCEPT !.width = probe.width, !.height = probe.height],
                          probe.width, viewportHeight(probe.height))
                 EXCEPT !.ready = TRUE])
    ELSE unchangedModel(mm)

Probes ==
    {[ok |-> TRUE, width |-> s[1], height |-> s[2]] : s \in TermSizes}
    \cup {[ok |-> FALSE, width |-> 0, height |-> 0]}

TeaInit ==
    /\ pc = "init"
    /\ \E probe \in Probes :
          \E r \in tuiInit(heap, m, probe) :
             /\ faults + r.faults <= MaxFaults
             /\ faults' = faults + r.faults
             /\ m' = r.m
             /\ pc' = IF r.panic THEN "panic" ELSE "tui"
    /\ UNCHANGED <<status, all, after, served, retErr, fetched, filtered, heap, styled, wrap, info, args>>

\* a plausible slip: next without the check against the last index
nextThread_unbounded(h, mm) ==
    IF mm.threads.len = 0 THEN unchangedModel(mm)
    ELSE showThread(h, [mm EXCEPT !.index = mm.index + 1])

nextThread(h, mm) ==
    IF mm.threads.len = 0 THEN unchangedModel(mm)
    ELSE IF mm.index < mm.threads.len - 1
    THEN showThread(h, [mm EXCEPT !.index = mm.index + 1])
    ELSE unchangedModel(mm)

\* a plausible slip: prev wraps around from the first thread to the last
prevThread_wraps(h, mm) ==
    IF mm.threads.len = 0 THEN unchangedModel(mm)
    ELSE IF mm.index > 0
    THEN showThread(h, [mm EXCEPT !.index = mm.index - 1])
    ELSE showThread(h, [mm EXCEPT !.index = mm.threads.len - 1])

prevThread(h, mm) ==
    IF mm.threads.len = 0 THEN unchangedModel(mm)
    ELSE IF mm.index > 0
    THEN showThread(h, [mm EXCEPT !.index = mm.index - 1])
    ELSE unchangedModel(mm)

\* a plausible slip: first without the check for being there already
firstThread_always(h, mm) ==
    IF mm.threads.len = 0 THEN unchangedModel(mm)
    ELSE showThread(h, [mm EXCEPT !.index = 0])

firstThread(h, mm) ==
    IF mm.threads.len = 0 THEN unchangedModel(mm)
    ELSE IF mm.index # 0
    THEN showThread(h, [mm EXCEPT !.index = 0])
    ELSE unchangedModel(mm)

lastThread(h, mm) ==
    IF mm.threads.len = 0 THEN unchangedModel(mm)
    ELSE IF mm.index # mm.threads.len - 1
    THEN showThread(h, [mm EXCEPT !.index = mm.threads.len - 1])
    ELSE unchangedModel(mm)

\* a plausible slip: a case of the switch pointing at the wrong mode
nextStatus_skips(st) ==
    CASE st = "all" -> "unresolved"
      [] st = "unresolved" -> "resolved"
      [] st = "resolved" -> "all"
      [] OTHER -> "all"

\* lines 290-300: the switch on m.status
nextStatus(st) ==
    CASE st = "all" -> "unresolved"
      [] st = "unresolved" -> "resolved"
      [] st = "resolved" -> "resolved-no-reply"
      [] st = "resolved-no-reply" -> "all"
      [] OTHER -> "all"

\* a plausible slip: the index goes back to 0 on every filter change
clampIndex_reset(index, n) == 0

\* a plausible slip: the index is clamped but not reset for an empty list
clampIndex_keepsOnEmpty(index, n) ==
    IF n > 0 /\ index >= n THEN n - 1 ELSE index

\* lines 303-311: the index after the visible list became n threads long
clampIndex(index, n) ==
    IF n = 0 THEN 0
    ELSE IF index >= n THEN n - 1
    ELSE index

\* a plausible slip: filtering the visible list instead of the full one
filterSource_visible(mm) == mm.threads

\* line 302: the list cycleFilter filters
filterSource(mm) == mm.allThreads

\* cycleFilter on model mm in heap h: the possible outcomes, each with the new
\* heap.  The array of the old visible list is unreachable once m.threads is
\* overwritten; it is released before the call so that array names stay
\* canonical.
cycleFilter(h, mm) ==
    LET next == nextStatus(mm.status)
        src == filterSource(mm)
        h0 == Collect(h, {fetched, filtered, mm.allThreads, src})
        r == filterThreads(h0, src, next)
    IN {[heap |-> r.heap, m |-> shown.m, panic |-> shown.panic, faults |-> shown.faults] :
          shown \in showThread(r.heap,
                               [mm EXCEPT !.status = next,
                                          !.threads = r.slice,
                                          !.index = clampIndex(mm.index, r.slice.len)])}

Keys == {"q", "esc", "ctrl+c", "f", "j", "k", "g", "G", "up", "down", "x"}

\* a plausible slip: a key missing from the case list
quitKeys_noEsc == {"q", "ctrl+c"}

\* line 151: the keys of the case that returns tea.Quit
quitKeys == {"q", "esc", "ctrl+c"}

\* a plausible slip: a ready viewport keeps its old size
resize_staleViewport(h, mm, width, height) ==
    IF mm.ready /\ width = mm.width /\ height = mm.height
    THEN unchangedModel(mm)
    ELSE LET m1 == [mm EXCEPT !.width = width, !.height = height]
             m2 == IF ~m1.ready
                   THEN [newViewport(m1, width, viewportHeight(height))
                            EXCEPT !.ready = TRUE]
                   ELSE m1
         IN refreshThread(h, m2)

\* the WindowSizeMsg case of Update
resize(h, mm, width, height) ==
    IF mm.ready /\ width = mm.width /\ height = mm.height
    THEN unchangedModel(mm)
    ELSE LET m1 == [mm EXCEPT !.width = width, !.height = height]
             m2 == IF ~m1.ready
                   THEN [newViewport(m1, width, viewportHeight(height))
                            EXCEPT !.ready = TRUE]
                   ELSE [m1 EXCEPT !.vpWidth = width,
                                   !.vpHeight = viewportHeight(height)]
         IN refreshThread(h, m2)

\* Update: the possible outcomes, each the new heap, the new model, whether
\* tea.Quit is returned and whether the handler panicked
Update(h, mm, msg) ==
    LET keep(rs) == {[heap |-> h, m |-> r.m, quit |-> FALSE, panic |-> r.panic,
                      faults |-> r.faults] : r \in rs}
    IN IF msg.type = "WindowSizeMsg"
       THEN keep(resize(h, mm, msg.width, msg.height))
       ELSE CASE msg.key \in quitKeys ->
                     {[heap |-> h, m |-> mm, quit |-> TRUE, panic |-> FALSE, faults |-> 0]}
              [] msg.key = "f" ->
                     {[heap |-> r.heap, m |-> r.m, quit |-> FALSE, panic |-> r.panic,
                       faults |-> r.faults] :
                         r \in cycleFilter(h, mm)}
              [] msg.key = "j" -> keep(nextThread(h, mm))
              [] msg.key = "k" -> keep(prevThread(h, mm))
              [] msg.key = "g" -> keep(firstThread(h, mm))
              [] msg.key = "G" -> keep(lastThread(h, mm))
              \* every other key goes to the viewport
              [] OTHER -> keep(unchangedModel(viewportUpdate(mm, msg.key)))

\* what View draws: "loading..." and nothing else until the model is ready,
\* then the header (thread count, filter, and the position of the current
\* thread or "No threads"), the viewport's window on its content, and the footer
View(mm) ==
    IF ~mm.ready
    THEN [loading |-> TRUE, count |-> 0, filter |-> "", noThreads |-> FALSE,
          position |-> 0, body |-> BlankContent, top |-> 0]
    ELSE [loading |-> FALSE,
          count |-> mm.threads.len,
          filter |-> mm.status,
          noThreads |-> mm.threads.len = 0,
          position |-> IF mm.threads.len = 0 THEN 0 ELSE mm.index + 1,
          body |-> mm.content,
          top |-> mm.yOffset]

\* the event loop delivers msg to Update
Deliver(msg) ==
    /\ pc = "tui"
    /\ \E r \in Update(heap, m, msg) :
          /\ faults + r.faults <= MaxFaults
          /\ faults' = faults + r.faults
          /\ m' = r.m
          /\ heap' = Collect(r.heap, {fetched, filtered, r.m.allThreads, r.m.threads})
          /\ pc' = IF r.panic THEN "panic" ELSE IF r.quit THEN "quit" ELSE "tui"
    /\ UNCHANGED <<status, all, after, served, retErr, fetched, filtered, styled, wrap, info, args>>

\* the messages the event loop delivers
Msgs ==
    {[type |-> "KeyMsg", key |-> k, width |-> 0, height |-> 0] : k \in Keys}
    \cup {[type |-> "WindowSizeMsg", key |-> "", width |-> size[1], height |-> size[2]] :
             size \in TermSizes}

KeyMsg(k) == Deliver([type |-> "KeyMsg", key |-> k, width |-> 0, height |-> 0])

KeyQuit == \E k \in {"q", "esc", "ctrl+c"} : KeyMsg(k)

KeyF == KeyMsg("f")

KeyJ == KeyMsg("j")

KeyK == KeyMsg("k")

KeyFirst == KeyMsg("g")

KeyLast == KeyMsg("G")

\* the scroll keys are delivered while the viewport is within MaxScroll lines
\* of the top
KeyOther ==
    \E k \in Keys \ {"q", "esc", "ctrl+c", "f", "j", "k", "g", "G"} :
        /\ k = "down" => m.yOffset < MaxScroll
        /\ KeyMsg(k)

WindowSizeMsg ==
    \E size \in TermSizes :
        Deliver([type |-> "WindowSizeMsg", key |-> "", width |-> size[1], height |-> size[2]])

----------------------------------------------------------------------------
(* The program: runTUI from the fetch on *)

Init ==
    /\ pc = "fetch"
    /\ status \in Statuses
    /\ all = <<>>
    /\ after = NilCursor
    /\ served = <<>>
    /\ retErr = NoErr
    /\ fetched = NilSlice
    /\ filtered = NilSlice
    /\ heap = EmptyHeap
    /\ styled \in BOOLEAN
    /\ faults = 0
    /\ wrap = NoWrap
    /\ m = ZeroModel
    /\ info = NoInfo
    /\ args = NoArgs

Next ==
    \/ FetchPage
    \/ ReturnErr
    \/ RunFilter
    \/ NewModel
    \/ TeaInit
    \/ KeyQuit
    \/ KeyF
    \/ KeyJ
    \/ KeyK
    \/ KeyFirst
    \/ KeyLast
    \/ KeyOther
    \/ WindowSizeMsg

\* runTUI up to the start of the event loop
Startup ==
    \/ FetchPage
    \/ ReturnErr
    \/ RunFilter
    \/ NewModel
    \/ TeaInit

Spec == Init /\ [][Startup]_vars

----------------------------------------------------------------------------
(* The browser: runTUI from line 87 on, for any list the fetch may return *)

\* the threads the browser is started on: unresolved without comments or with
\* one, resolved with one or with replies
BrowserKinds ==
    {k \in Kinds : (k.isResolved /\ k.comments > 0) \/ (~k.isResolved /\ k.comments < 2)}

\* the lists of at most MaxBrowse such threads, identified by their position
BrowserInputs ==
    UNION { { [i \in 1..n |-> mkThread(i, ks[i])] : ks \in [1..n -> BrowserKinds] } :
            n \in 0..MaxBrowse }

InitBrowser ==
    /\ pc = "returned"
    /\ status \in Statuses
    /\ all = <<>>
    /\ after = NilCursor
    /\ served = <<>>
    /\ retErr = NoErr
    /\ \E ts \in BrowserInputs :
          /\ fetched = newSlice(EmptyHeap, ts).slice
          /\ heap = newSlice(EmptyHeap, ts).heap
    /\ filtered = NilSlice
    /\ styled \in BOOLEAN
    /\ faults = 0
    /\ wrap = NoWrap
    /\ m = ZeroModel
    /\ info = NoInfo
    /\ args = NoArgs

\* a session in a terminal that is not resized
Browse ==
    \/ RunFilter
    \/ NewModel
    \/ TeaInit
    \/ KeyQuit
    \/ KeyF
    \/ KeyJ
    \/ KeyK
    \/ KeyFirst
    \/ KeyLast
    \/ KeyOther

SpecBrowser == InitBrowser /\ [][Browse]_vars

----------------------------------------------------------------------------
(* The browser in a terminal that is resized, on lists whose threads may come
   without an ID *)

\* the lists of at most MaxCached threads, alternately unresolved and
\* resolved, each with its position as ID or with the empty ID (0), without
\* comments or with replies
CacheInputs ==
    UNION { { [i \in 1..n |-> [id |-> ids[i], isResolved |-> (i % 2 = 0),
                               comments |-> cs[i]]] :
              ids \in {f \in [1..n -> 0..n] : \A i \in 1..n : f[i] \in {0, i}},
              cs \in [1..n -> CommentCounts \ {1}] } :
            n \in 0..MaxCached }

InitCache ==
    /\ pc = "returned"
    /\ status \in {"all", "unresolved"}
    /\ all = <<>>
    /\ after = NilCursor
    /\ served = <<>>
    /\ retErr = NoErr
    /\ \E ts \in CacheInputs :
          /\ fetched = newSlice(EmptyHeap, ts).slice
          /\ heap = newSlice(EmptyHeap, ts).heap
    /\ filtered = NilSlice
    /\ styled \in BOOLEAN
    /\ faults = 0
    /\ wrap = NoWrap
    /\ m = ZeroModel
    /\ info = NoInfo
    /\ args = NoArgs

\* a session in a terminal that may be resized
Session ==
    \/ RunFilter
    \/ NewModel
    \/ TeaInit
    \/ KeyQuit
    \/ KeyF
    \/ KeyJ
    \/ KeyK
    \/ KeyFirst
    \/ KeyLast
    \/ KeyOther
    \/ WindowSizeMsg

SpecCache == InitCache /\ [][Session]_vars

----------------------------------------------------------------------------
(* filterThreads on its own: the call of runTUI line 87 for any argument *)

\* thread lists of at most MaxFilterLen threads; identifiers may repeat
FilterInputs ==
    UNION { [1..n -> [id : 1..MaxID, isResolved : BOOLEAN, comments : CommentCounts]] :
            n \in 0..MaxFilterLen }

InitFilter ==
    /\ pc = "returned"
    /\ status \in Statuses
    /\ all = <<>>
    /\ after = NilCursor
    /\ served = <<>>
    /\ retErr = NoErr
    /\ \E ts \in FilterInputs :
          /\ fetched = newSlice(EmptyHeap, ts).slice
          /\ heap = newSlice(EmptyHeap, ts).heap
    /\ filtered = NilSlice
    /\ styled = TRUE
    /\ faults = 0
    /\ wrap = NoWrap
    /\ m = ZeroModel
    /\ info = NoInfo
    /\ args = NoArgs

SpecFilter == InitFilter /\ [][RunFilter]_vars

----------------------------------------------------------------------------
(* wrapPlainText and wrapText, src/main.go:549-619 *)

\* A string is the sequence of its bytes, each a one-character string; len()
\* is Len.

\* unicode.IsSpace on the bytes that occur
IsSpace(ch) == ch \in {" ", "\n", "\t", "\r"}

\* n times the byte ch
Rep(ch, n) == [i \in 1..n |-> ch]

\* strings.TrimRight(str, cut) for a one-byte cutset
RECURSIVE TrimRight(_, _)
TrimRight(str, cut) ==
    IF str # <<>> /\ str[Len(str)] = cut
    THEN TrimRight(SubSeq(str, 1, Len(str) - 1), cut)
    ELSE str

\* strings.Split(str, sep) for a one-byte separator: never empty
RECURSIVE Split(_, _)
Split(str, sep) ==
    IF \E i \in 1..Len(str) : str[i] = sep
    THEN LET i == CHOOSE j \in 1..Len(str) :
                      str[j] = sep /\ \A k \in 1..(j - 1) : str[k] # sep
         IN <<SubSeq(str, 1, i - 1)>> \o Split(SubSeq(str, i + 1, Len(str)), sep)
    ELSE <<str>>

RECURSIVE TrimLeftSpace(_)
TrimLeftSpace(str) ==
    IF str # <<>> /\ IsSpace(str[1]) THEN TrimLeftSpace(Tail(str)) ELSE str

RECURSIVE TrimRightSpace(_)
TrimRightSpace(str) ==
    IF str # <<>> /\ IsSpace(str[Len(str)])
    THEN TrimRightSpace(SubSeq(str, 1, Len(str) - 1))
    ELSE str

\* strings.TrimSpace
TrimSpace(str) == TrimRightSpace(TrimLeftSpace(str))

\* strings.HasPrefix
HasPrefix(str, prefix) ==
    Len(str) >= Len(prefix) /\ SubSeq(str, 1, Len(prefix)) = prefix

\* strings.Fields: the maximal runs of non-space bytes
RECURSIVE Fields(_)
Fields(str) ==
    LET rest == TrimLeftSpace(str)
    IN IF rest = <<>> THEN <<>>
       ELSE LET n == IF \E i \in 1..Len(rest) : IsSpace(rest[i])
                     THEN (CHOOSE j \in 1..Len(rest) :
                              IsSpace(rest[j]) /\ \A k \in 1..(j - 1) : ~IsSpace(rest[k])) - 1
                     ELSE Len(rest)
            IN <<SubSeq(rest, 1, n)>> \o Fields(SubSeq(rest, n + 1, Len(rest)))

\* a plausible slip: the lines of a paragraph are joined without a separator
RECURSIVE Concat(_)
Concat(strs) == IF strs = <<>> THEN <<>> ELSE Head(strs) \o Concat(Tail(strs))

Join_noSep(strs, sep) == Concat(strs)

\* strings.Join
RECURSIVE Join(_, _)
Join(strs, sep) ==
    IF strs = <<>> THEN <<>>
    ELSE IF Len(strs) = 1 THEN strs[1]
    ELSE strs[1] \o sep \o Join(Tail(strs), sep)

\* a plausible slip: a word that fills the line exactly starts a new one
RECURSIVE wrapWords_strict(_, _, _, _, _)
wrapWords_strict(words, i, width, lines, current) ==
    IF i > Len(words) THEN Append(lines, current)
    ELSE IF Len(current) + 1 + Len(words[i]) >= width
    THEN wrapWords_strict(words, i + 1, width, Append(lines, current), words[i])
    ELSE wrapWords_strict(words, i + 1, width, lines, current \o <<" ">> \o words[i])

\* the loop of wrapText over words[i..], with `lines` and `current` so far
RECURSIVE wrapWords(_, _, _, _, _)
wrapWords(words, i, width, lines, current) ==
    IF i > Len(words) THEN Append(lines, current)
    ELSE IF Len(current) + 1 + Len(words[i]) > width
    THEN wrapWords(words, i + 1, width, Append(lines, current), words[i])
    ELSE wrapWords(words, i + 1, width, lines, current \o <<" ">> \o words[i])

\* a plausible slip: the space between two words is not counted
RECURSIVE wrapWords_noSpace(_, _, _, _, _)
wrapWords_noSpace(words, i, width, lines, current) ==
    IF i > Len(words) THEN Append(lines, current)
    ELSE IF Len(current) + Len(words[i]) > width
    THEN wrapWords_noSpace(words, i + 1, width, Append(lines, current), words[i])
    ELSE wrapWords_noSpace(words, i + 1, width, lines, current \o <<" ">> \o words[i])

\* a plausible slip: wrapText without a check of the space a word needs
wrapText_noSpace(text, width) ==
    LET words == Fields(text)
    IN IF Len(words) = 0 THEN << <<>> >>
       ELSE wrapWords_noSpace(words, 2, width, <<>>, words[1])

\* a plausible slip: the line being filled is not appended after the loop
wrapText_dropsLast(text, width) ==
    LET words == Fields(text)
    IN IF Len(words) = 0 THEN << <<>> >>
       ELSE LET lines == wrapWords(words, 2, width, <<>>, words[1])
            IN SubSeq(lines, 1, Len(lines) - 1)

wrapText(text, width) ==
    LET words == Fields(text)
    IN IF Len(words) = 0 THEN << <<>> >>
       ELSE wrapWords(words, 2, width, <<>>, words[1])

\* line 555: the least number of columns left to the text after the indent
minTextWidth == 20

\* the backquote byte (0x60)
backquote == "BQ"

\* the fence marker: three backquotes
fence == <<backquote, backquote, backquote>>

\* An output line is its text and how it was made: "wrapped" from a
\* paragraph, "blank" (the indent alone) or "verbatim" (indent + an input line).

\* lines 554-557
maxWidthOf(indent, width) ==
    IF width < Len(indent) + minTextWidth THEN Len(indent) + minTextWidth ELSE width

\* the closure flushParagraph: the output with the lines of the paragraph appended
flushParagraph(out, paragraph, indent, maxWidth) ==
    IF Len(paragraph) = 0 THEN out
    ELSE LET wrapped == wrapText(Join(paragraph, <<" ">>), maxWidth - Len(indent))
         IN out \o [k \in 1..Len(wrapped) |->
                       [text |-> indent \o wrapped[k], kind |-> "wrapped"]]

\* a plausible slip: the separator before a fence line is added whenever the
\* output is non-empty, also after a blank line
RECURSIVE wrapLines_alwaysSeparates(_, _, _, _, _, _, _)
wrapLines_alwaysSeparates(lines, i, indent, maxWidth, out, paragraph, inFence) ==
    IF i > Len(lines) THEN flushParagraph(out, paragraph, indent, maxWidth)
    ELSE LET line == lines[i]
             trimmed == TrimSpace(line)
             flushed == flushParagraph(out, paragraph, indent, maxWidth)
             verbatim == [text |-> indent \o line, kind |-> "verbatim"]
             blank == [text |-> indent, kind |-> "blank"]
         IN IF HasPrefix(trimmed, fence)
            THEN wrapLines_alwaysSeparates(lines, i + 1, indent, maxWidth,
                           IF Len(flushed) > 0
                           THEN flushed \o <<blank, verbatim>>
                           ELSE Append(flushed, verbatim),
                           <<>>, ~inFence)
            ELSE IF inFence
            THEN wrapLines_alwaysSeparates(lines, i + 1, indent, maxWidth,
                           Append(out, verbatim), paragraph, inFence)
            ELSE IF trimmed = <<>>
            THEN wrapLines_alwaysSeparates(lines, i + 1, indent, maxWidth,
                           Append(flushed, blank), <<>>, inFence)
            ELSE wrapLines_alwaysSeparates(lines, i + 1, indent, maxWidth,
                           out, Append(paragraph, trimmed), inFence)

\* the loop of wrapPlainText over lines[i..] and the final flush
RECURSIVE wrapLines(_, _, _, _, _, _, _)
wrapLines(lines, i, indent, maxWidth, out, paragraph, inFence) ==
    IF i > Len(lines) THEN flushParagraph(out, paragraph, indent, maxWidth)
    ELSE LET line == lines[i]
             trimmed == TrimSpace(line)
             flushed == flushParagraph(out, paragraph, indent, maxWidth)
             verbatim == [text |-> indent \o line, kind |-> "verbatim"]
             blank == [text |-> indent, kind |-> "blank"]
         IN IF HasPrefix(trimmed, fence)
            THEN wrapLines(lines, i + 1, indent, maxWidth,
                           IF Len(flushed) > 0 /\ flushed[Len(flushed)].text # indent
                           THEN flushed \o <<blank, verbatim>>
                           ELSE Append(flushed, verbatim),
                           <<>>, ~inFence)
            ELSE IF inFence
            THEN wrapLines(lines, i + 1, indent, maxWidth,
                           Append(out, verbatim), paragraph, inFence)
            ELSE IF trimmed = <<>>
            THEN wrapLines(lines, i + 1, indent, maxWidth,
                           Append(flushed, blank), <<>>, inFence)
            ELSE wrapLines(lines, i + 1, indent, maxWidth,
                           out, Append(paragraph, trimmed), inFence)

\* a plausible slip: a body of white space alone gives no line at all
wrapPlainText_noLines(body, indent, width) ==
    IF TrimSpace(body) = <<>> THEN <<>>
    ELSE wrapLines(Split(TrimRight(body, "\n"), "\n"), 1, indent,
                   maxWidthOf(indent, width), <<>>, <<>>, FALSE)

wrapPlainText(body, indent, width) ==
    LET lines == Split(TrimRight(body, "\n"), "\n")
    IN IF Len(lines) = 0 THEN <<[text |-> indent, kind |-> "blank"]>>
       ELSE wrapLines(lines, 1, indent, maxWidthOf(indent, width), <<>>, <<>>, FALSE)

\* the pieces bodies are made of: a short word, a word of ten bytes, a word of
\* twenty-one bytes, a space, a newline and the fence marker
Tokens == {<<"a">>, Rep("b", 10), Rep("c", 21), <<" ">>, <<"\n">>, fence}

\* the bodies of at most n pieces
Bodies(n) == UNION { {Join(ts, <<>>) : ts \in [1..k -> Tokens]} : k \in 0..n }

\* the indents: none, and the two spaces threadContent passes
Indents == {<<>>, <<" ", " ">>}

\* the widths: below the least text width, just above it, and wide
Widths == {10, 22, 30}

InitWrap ==
    /\ pc = "wrap"
    /\ status = "all"
    /\ all = <<>>
    /\ after = NilCursor
    /\ served = <<>>
    /\ retErr = NoErr
    /\ fetched = NilSlice
    /\ filtered = NilSlice
    /\ heap = EmptyHeap
    /\ styled = FALSE
    /\ faults = 0
    /\ m = ZeroModel
    /\ info = NoInfo
    /\ args = NoArgs
    /\ \E body \in Bodies(MaxTokens), indent \in Indents, width \in Widths :
          wrap = [body |-> body, indent |-> indent, width |-> width,
                  out |-> <<>>, done |-> FALSE]

\* the call wrapPlainText(body, indent, width)
WrapPlainText ==
    /\ pc = "wrap"
    /\ ~wrap.done
    /\ wrap' = [wrap EXCEPT !.out = wrapPlainText(wrap.body, wrap.indent, wrap.width),
                            !.done = TRUE]
    /\ UNCHANGED <<pc, status, all, after, served, retErr, fetched, filtered, heap,
                   styled, faults, m, info, args>>

SpecWrap == InitWrap /\ [][WrapPlainText]_vars

----------------------------------------------------------------------------
(* formatLineInfo, src/main.go:368-381 *)

\* fmt.Sprintf("%d", n) for n >= 0
RECURSIVE Itoa(_)
Itoa(n) ==
    LET digit == <<"0", "1", "2", "3", "4", "5", "6", "7", "8", "9">>[(n % 10) + 1]
    IN IF n < 10 THEN <<digit>> ELSE Append(Itoa(n \div 10), digit)

\* a plausible slip: the range is shown whenever both of its ends are present
formatLineInfo_noRangeCheck(t) ==
    IF t.path = <<>> THEN <<>>
    ELSE LET parts ==
                 IF t.startLine.present /\ t.line.present
                 THEN <<t.path, Itoa(t.startLine.val) \o <<"-">> \o Itoa(t.line.val)>>
                 ELSE IF t.line.present THEN <<t.path, Itoa(t.line.val)>>
                 ELSE IF t.originalLine.present THEN <<t.path, Itoa(t.originalLine.val)>>
                 ELSE <<t.path>>
         IN <<" ", "[">> \o Join(parts, <<":">>) \o <<"]">>

formatLineInfo(t) ==
    IF t.path = <<>> THEN <<>>
    ELSE LET parts ==
                 IF t.startLine.present /\ t.line.present /\ t.startLine.val # t.line.val
                 THEN <<t.path, Itoa(t.startLine.val) \o <<"-">> \o Itoa(t.line.val)>>
                 ELSE IF t.line.present THEN <<t.path, Itoa(t.line.val)>>
                 ELSE IF t.originalLine.present THEN <<t.path, Itoa(t.originalLine.val)>>
                 ELSE <<t.path>>
         IN <<" ", "[">> \o Join(parts, <<":">>) \o <<"]">>

\* the paths of threads: none, a file, a file in a directory
Paths == {<<>>, <<"f">>, <<"d", "/", "f">>}

\* the optional line numbers of threads
Lines == {NilLine} \cup {lineOf(n) : n \in 1..MaxLine}

InitInfo ==
    /\ pc = "info"
    /\ status = "all"
    /\ all = <<>>
    /\ after = NilCursor
    /\ served = <<>>
    /\ retErr = NoErr
    /\ fetched = NilSlice
    /\ filtered = NilSlice
    /\ heap = EmptyHeap
    /\ styled = FALSE
    /\ faults = 0
    /\ wrap = NoWrap
    /\ args = NoArgs
    /\ m = ZeroModel
    /\ \E path \in Paths, startLine \in Lines, line \in Lines, originalLine \in Lines :
          info = [path |-> path, startLine |-> startLine, line |-> line,
                  originalLine |-> originalLine, out |-> <<>>, done |-> FALSE]

\* the call formatLineInfo(t)
FormatLineInfo ==
    /\ pc = "info"
    /\ ~info.done
    /\ info' = [info EXCEPT !.out = formatLineInfo(info), !.done = TRUE]
    /\ UNCHANGED <<pc, status, all, after, served, retErr, fetched, filtered, heap,
                   styled, faults, wrap, args, m>>

SpecInfo == InitInfo /\ [][FormatLineInfo]_vars

----------------------------------------------------------------------------
(* runTUI before the fetch, src/tui.go:56-81 *)

\* the bytes of the four modes
statusText ==
    [st \in Statuses |->
        CASE st = "all" -> <<"a", "l", "l">>
          [] st = "unresolved" -> <<"u", "n", "r", "e", "s", "o", "l", "v", "e", "d">>
          [] st = "resolved" -> <<"r", "e", "s", "o", "l", "v", "e", "d">>
          [] st = "resolved-no-reply" -> <<"r", "e", "s", "o", "l", "v", "e", "d", "-", "n", "o", "-", "r", "e", "p", "l", "y">>]

upperCase == <<"A", "B", "C", "D", "E", "F", "G", "H", "I", "J", "K", "L", "M", "N", "O", "P", "Q", "R", "S", "T", "U", "V", "W", "X", "Y", "Z">>

lowerCase == <<"a", "b", "c", "d", "e", "f", "g", "h", "i", "j", "k", "l", "m", "n", "o", "p", "q", "r", "s", "t", "u", "v", "w", "x", "y", "z">>

\* strings.ToLower on ASCII
ToLower(str) ==
    [i \in 1..Len(str) |->
        IF \E k \in 1..Len(upperCase) : upperCase[k] = str[i]
        THEN lowerCase[CHOOSE k \in 1..Len(upperCase) : upperCase[k] = str[i]]
        ELSE str[i]]

\* a plausible slip: the flag is compared as it was typed
normalStatus_asTyped(flag) == IF flag = <<>> THEN statusText["all"] ELSE flag

\* lines 56-59: the flag trimmed and in lower case, "all" when that is empty
normalStatus(flag) ==
    LET st == ToLower(TrimSpace(flag))
    IN IF st = <<>> THEN statusText["all"] ELSE st

\* line 60: the check against the four modes
validStatus(st) == \E name \in Statuses : statusText[name] = st

\* lines 56-62 of runTUI
ParseStatus ==
    /\ pc = "args"
    /\ LET st == normalStatus(status)
       IN IF validStatus(st)
          THEN /\ status' = CHOOSE name \in Statuses : statusText[name] = st
               /\ pc' = "pr"
               /\ retErr' = retErr
          ELSE \* return fmt.Errorf("invalid --status %q", status)
               /\ status' = st
               /\ pc' = "exit"
               /\ retErr' = "err-status"
    /\ UNCHANGED <<all, after, served, fetched, filtered, heap, styled, faults, wrap,
                   info, args, m>>

\* gh.CurrentPrNumber: `gh pr view --json number` ran (exit status), printed
\* JSON or not, with a number in it; the result is the number or an error
CurrentPrNumber(out) ==
    IF out.exit # 0 THEN [number |-> 0, err |-> "err-gh"]
    ELSE IF ~out.json THEN [number |-> 0, err |-> "err-json"]
    ELSE IF out.number = 0 THEN [number |-> 0, err |-> "err-no-pr"]
    ELSE [number |-> out.number, err |-> NoErr]

\* what `gh pr view --json number` may do
GhOutputs ==
    {[exit |-> 1, json |-> FALSE, number |-> 0], [exit |-> 0, json |-> FALSE, number |-> 0]}
    \cup {[exit |-> 0, json |-> TRUE, number |-> n] : n \in 0..MaxPr}

\* the values of --pr
PrFlags == (-1)..MaxPr

\* a plausible slip: the number is derived whenever --pr is not the last PR
derivePr_always(pr, out) ==
    LET r == CurrentPrNumber(out)
    IN IF r.err # NoErr THEN [pr |-> pr, gh |-> <<out>>, err |-> "err-pr"]
       ELSE [pr |-> r.number, gh |-> <<out>>, err |-> NoErr]

\* lines 65-71: pr after the derivation, the output of gh when it was run, and
\* the error runTUI returns
derivePr(pr, out) ==
    IF pr <= 0
    THEN LET r == CurrentPrNumber(out)
         IN IF r.err # NoErr THEN [pr |-> pr, gh |-> <<out>>, err |-> "err-pr"]
            ELSE [pr |-> r.number, gh |-> <<out>>, err |-> NoErr]
    ELSE [pr |-> pr, gh |-> <<>>, err |-> NoErr]

DerivePr ==
    /\ pc = "pr"
    /\ \E out \in GhOutputs :
          LET r == derivePr(args.pr, out)
          IN /\ args' = [args EXCEPT !.pr = r.pr, !.gh = r.gh]
             /\ retErr' = r.err
             /\ pc' = IF r.err # NoErr THEN "exit" ELSE "repo"
    /\ UNCHANGED <<status, all, after, served, fetched, filtered, heap, styled, faults,
                   wrap, info, m>>

\* lines 73-81: resolveRepo and gh.AuthToken succeed or fail; the flags, the
\* number and the output of gh play no part in what follows and are dropped
\* from the record when the fetch starts
Connect ==
    /\ pc = "repo"
    /\ \E err \in {NoErr, "err-repo", "err-token"} :
          /\ retErr' = err
          /\ pc' = IF err # NoErr THEN "exit" ELSE "fetch"
          /\ args' = IF err # NoErr THEN args ELSE NoArgs
    /\ UNCHANGED <<status, all, after, served, fetched, filtered, heap, styled, faults,
                   wrap, info, m>>

\* the values of --status
StatusFlags ==
    {<<>>, <<" ">>, <<"a", "l", "l">>, <<"A", "L", "L">>, <<"r", "e", "s", "o", "l", "v", "e", "d">>,
     <<" ", "U", "n", "r", "e", "s", "o", "l", "v", "e", "d", " ">>, <<"r", "e", "s", "o", "l", "v", "e", "d", "-", "n", "o", "-", "r", "e", "p", "l", "y">>, <<"o", "p", "e", "n">>, <<"r", "e", "s", "o", "l", "v", "e", "d", "-", "n", "o">>}

InitArgs ==
    /\ pc = "args"
    /\ \E flag \in StatusFlags, pr \in PrFlags :
          /\ status = flag
          /\ args = [statusFlag |-> flag, prFlag |-> pr, pr |-> pr, gh |-> <<>>]
    /\ all = <<>>
    /\ after = NilCursor
    /\ served = <<>>
    /\ retErr = NoErr
    /\ fetched = NilSlice
    /\ filtered = NilSlice
    /\ heap = EmptyHeap
    /\ styled = FALSE
    /\ faults = 0
    /\ wrap = NoWrap
    /\ info = NoInfo
    /\ m = ZeroModel

\* runTUI from its flags on, with the filter key in the event loop
Run ==
    \/ ParseStatus
    \/ DerivePr
    \/ Connect
    \/ FetchPage
    \/ ReturnErr
    \/ RunFilter
    \/ NewModel
    \/ TeaInit
    \/ KeyF

SpecArgs == InitArgs /\ [][Run]_vars

----------------------------------------------------------------------------
(* Properties *)

\* the threads a filter mode is documented to show
Wanted(t, st) ==
    CASE st = "all" -> TRUE
      [] st = "unresolved" -> t.isResolved = FALSE
      [] st = "resolved" -> t.isResolved = TRUE
      [] st = "resolved-no-reply" -> t.isResolved = TRUE /\ t.comments \in {0, 1}

\* the subsequence of ts a filter mode is documented to show
Shown(ts, st) == LET keep(t) == Wanted(t, st) IN SelectSeq(ts, keep)

\* the documented cycle order
CycleOrder == <<"all", "unresolved", "resolved", "resolved-no-reply">>

CycleSucc(st) ==
    LET i == CHOOSE j \in 1..Len(CycleOrder) : CycleOrder[j] = st
    IN CycleOrder[(i % Len(CycleOrder)) + 1]

\* the items of a sequence of pages, page after page
RECURSIVE Flatten(_)
Flatten(pages) ==
    IF pages = <<>> THEN <<>> ELSE Head(pages).nodes \o Flatten(Tail(pages))

\* the browser exists
Browsing == pc \in {"init", "tui", "quit", "panic"}

visible == Elems(heap, m.threads)

allThreads == Elems(heap, m.allThreads)

C2_AllThreadsIsFetch ==
    Browsing =>
        /\ allThreads = Elems(heap, fetched)
        /\ visible = Shown(Elems(heap, fetched), m.status)

\* C3: a filter-cycle event recomputes the visible list from the all-threads
\* list; an index at or beyond the new length becomes len-1, any other index is
\* kept (not reset to 0); an empty new list leaves the browser Empty
C3_FilterChanged ==
    [][KeyF =>
          LET n == m'.threads.len
          IN /\ Elems(heap', m'.threads) = Shown(allThreads, m'.status)
             /\ n = Len(Shown(allThreads, m'.status))
             /\ n > 0 /\ m.index >= n => m'.index = n - 1
             /\ n > 0 /\ m.index < n => m'.index = m.index]_vars

\* after a filter cycle the browser stands in a visible list of its own, at
\* an index other than 0
C3_Witness ==
    /\ pc = "tui"
    /\ m.threads.arr # m.allThreads.arr
    /\ m.threads.len >= 2
    /\ m.index >= 1
    /\ m.status \in {"unresolved", "resolved"}

\* the state four filter-cycle events lead to
cycle4(h, mm) ==
    LET step(rs) == UNION {cycleFilter(r.heap, r.m) : r \in rs}
    IN step(step(step(cycleFilter(h, mm))))

\* C4: from any state of the browser, four filter-cycle events in a row lead
\* back to the same filter mode and to the same visible list
C4_FourCycles ==
    pc = "tui" =>
        \A r \in cycle4(heap, m) :
            /\ r.m.status = m.status
            /\ Elems(r.heap, r.m.threads) = visible

\* a session started in a mode other than All is back in that mode with a
\* visible list of its own: the filter has been cycled a multiple of four times
C4_Witness ==
    /\ pc = "tui"
    /\ status # "all"
    /\ m.status = status
    /\ m.threads.arr # m.allThreads.arr
    /\ m.threads.len >= 2
    /\ \A r \in cycleFilter(heap, m) : Elems(r.heap, r.m.threads) # visible

C6_FilterCorrect ==
    pc = "filtered" =>
        /\ Elems(heap, filtered) = Shown(Elems(heap, fetched), status)
        /\ status = "all" => filtered = fetched

\* resolved-no-reply kept a thread twice and dropped others
C6_Witness ==
    /\ pc = "filtered"
    /\ status = "resolved-no-reply"
    /\ fetched.len = MaxFilterLen
    /\ filtered.len = 2
    /\ Elems(heap, filtered)[1] = Elems(heap, filtered)[2]
    /\ Elems(heap, fetched)[2].isResolved
    /\ Elems(heap, fetched)[2].comments = 2

C8_PaginationComplete ==
    pc = "returned" /\ retErr = NoErr =>
        /\ Elems(heap, fetched) = Flatten(served)
        /\ \A i \in 1..fetched.len : Elems(heap, fetched)[i].id = i

\* a fetch of several non-empty pages has returned
C8_Witness ==
    /\ pc = "returned"
    /\ retErr = NoErr
    /\ Len(served) >= 2
    /\ \A k \in 1..Len(served) : served[k].nodes # <<>>
    /\ fetched.len = MaxThreads

\* C9: a page that reports hasNextPage with an empty or absent end cursor is the
\* last page fetched, and the fetch returns everything up to and including it
C9_EmptyCursorStops ==
    \A k \in 1..Len(served) :
        /\ served[k].err = NoErr
        /\ served[k].hasNextPage
        /\ served[k].endCursor \in {NilCursor, EmptyCursor}
        => /\ k = Len(served)
           /\ pc = "returned"
           /\ retErr = NoErr
           /\ Elems(heap, fetched) = Flatten(served)

\* the second page carried items, claimed more pages and gave an empty cursor
C9_Witness ==
    /\ pc = "returned"
    /\ Len(served) = 2
    /\ served[2].hasNextPage
    /\ served[2].endCursor = EmptyCursor
    /\ served[2].nodes # <<>>
    /\ served[1].nodes # <<>>

\* C10: a failed page fetch is the last request; fetchAllThreads returns that
\* error and no threads, runTUI returns it, and no browser is ever created
C10_FetchFails ==
    /\ \A k \in 1..Len(served) :
          served[k].err # NoErr =>
              /\ k = Len(served)
              /\ pc \in {"returned", "exit"}
              /\ retErr = served[k].err
    /\ retErr # NoErr =>
          /\ pc \in {"returned", "exit"}
          /\ fetched = NilSlice
          /\ heap = EmptyHeap
          /\ m = ZeroModel
    /\ pc = "exit" => retErr # NoErr /\ ~ENABLED Next

\* the second page failed after a first page with items; runTUI has returned
C10_Witness ==
    /\ pc = "exit"
    /\ Len(served) = 2
    /\ served[1].nodes # <<>>
    /\ served[2].err = "err-graphql"
    /\ retErr = "err-graphql"

\* the outcomes of a request for the thread at position i of the visible list
\* at width w
request(i, w) == threadContent(heap, [m EXCEPT !.index = i - 1, !.vpWidth = w])

\* the viewport holds content that was produced for the current thread at the
\* current width
Produced ==
    /\ m.threads.len > 0
    /\ m.content.kind = "thread"
    /\ m.content.thread = visible[m.index + 1]
    /\ m.content.width = effectiveWidth(m)

\* C11 as stated, for every thread: once the content of the current thread has
\* been produced at the current width, a further request for it returns the
\* identical content without a call of the rendering pipeline
C11_EveryThreadCached ==
    pc = "tui" /\ Produced =>
        \A r \in threadContent(heap, m) : r.content = m.content /\ r.calls = 0

\* C11: for every thread with a non-empty ID and every width, content that has
\* been produced is in the cache under (ID, width), and every request for a
\* thread at a width the cache has an entry for returns the entry's content
\* without a call of the rendering pipeline
C11_CachedOnce ==
    pc = "tui" =>
        /\ Produced /\ m.content.thread.id # 0 =>
               [id |-> m.content.thread.id, width |-> m.content.width,
                content |-> m.content] \in m.contentCache
        /\ \A e \in m.contentCache : \A i \in 1..m.threads.len :
               visible[i].id = e.id =>
                   \A r \in request(i, e.width) :
                       r.content = e.content /\ r.calls = 0

\* a thread with an ID and a reply has been rendered at two widths, and a
\* request for it is served from the cache
C11_Witness ==
    /\ pc = "tui"
    /\ Produced
    /\ m.content.thread.id # 0
    /\ m.content.thread.comments = 2
    /\ m.ready
    /\ Cardinality({e \in m.contentCache : e.id = m.content.thread.id}) >= 2
    /\ \A r \in threadContent(heap, m) : r.calls = 0

NoChange == m' = m /\ heap' = heap /\ pc' = pc

\* the step keeps the visible list and the mode
SameList == m'.threads = m.threads /\ Elems(heap', m'.threads) = visible /\ m'.status = m.status

\* C13: a next event moves from index i to i+1 when the visible list is
\* non-empty and i < len-1, a prev event from i to i-1 when it is non-empty and
\* i > 0, both keeping list and mode; in every other state the event changes
\* nothing (index, list, mode, content, scroll position)
C13_NextPrev ==
    [][/\ KeyJ => IF m.threads.len > 0 /\ m.index < m.threads.len - 1
                  THEN m'.index = m.index + 1 /\ SameList /\ pc' = "tui"
                  ELSE NoChange
       /\ KeyK => IF m.threads.len > 0 /\ m.index > 0
                  THEN m'.index = m.index - 1 /\ SameList /\ pc' = "tui"
                  ELSE NoChange]_vars

\* the browser has moved to the second thread of an unfiltered list and from
\* there scrolled down: next is at its boundary, prev can move
C13_Witness ==
    /\ pc = "tui"
    /\ m.threads.arr = m.allThreads.arr
    /\ m.threads.len = 2
    /\ m.index = 1
    /\ m.yOffset = 1
    /\ m.content.thread = visible[2]

\* C14: on a non-empty visible list a first event sets the index to 0 and a last
\* event sets it to len-1; at that boundary already the event changes nothing
\* (index, content, scroll position), so a second first (last) changes nothing
C14_FirstLast ==
    [][/\ KeyFirst =>
             /\ IF m.threads.len > 0 /\ m.index # 0
                THEN m'.index = 0 /\ SameList /\ pc' = "tui"
                ELSE NoChange
             /\ \A r \in firstThread(heap', m') : r.m = m'
       /\ KeyLast =>
             /\ IF m.threads.len > 0 /\ m.index # m.threads.len - 1
                THEN m'.index = m.threads.len - 1 /\ SameList /\ pc' = "tui"
                ELSE NoChange
             /\ \A r \in lastThread(heap', m') : r.m = m']_vars

\* the browser stands on the first of two threads of a filtered list, scrolled
\* down: first is at its boundary, last can move
C14_Witness ==
    /\ pc = "tui"
    /\ m.threads.arr # m.allThreads.arr
    /\ m.threads.len = 2
    /\ m.index = 0
    /\ m.yOffset = 1
    /\ m.content.thread = visible[1]

\* C15: whenever the visible list is empty the browser shows the no-threads
\* message as its body and "No threads" in its header, the navigation keys
\* change nothing, and the filter key is still served
C15_EmptyShown ==
    pc = "tui" /\ m.threads.len = 0 =>
        /\ ~View(m).loading
        /\ View(m).noThreads
        /\ View(m).body = NoThreadsContent
        /\ \A r \in nextThread(heap, m) \cup prevThread(heap, m)
                     \cup firstThread(heap, m) \cup lastThread(heap, m) : r.m = m
        /\ ENABLED KeyF

\* content c is what threadContent gives for an empty list (n = 0) or for
\* thread t at width w
ContentOf(c, n, t, w) ==
    IF n = 0 THEN c = NoThreadsContent
    ELSE IF t.comments = 0 THEN c = BlankContent
    ELSE c.kind = "thread" /\ c.thread = t /\ c.width = w

\* the thread at the current position, or the zero thread when there is none
CurrentOf(h, mm) == IF mm.threads.len = 0 THEN ZeroThread ELSE Elems(h, mm.threads)[mm.index + 1]

\* C16: a next, prev, first, last or filter-cycle step after which another
\* thread (or none) is at the current position leaves the viewport holding the
\* content of the new current thread at the current width, scrolled to the top
C16_ShowsNewThread ==
    [][(KeyJ \/ KeyK \/ KeyFirst \/ KeyLast \/ KeyF)
       /\ (CurrentOf(heap', m') # CurrentOf(heap, m) \/ (m'.threads.len = 0) # (m.threads.len = 0))
       => /\ m'.yOffset = 0
          /\ ContentOf(m'.content, m'.threads.len, CurrentOf(heap', m'), effectiveWidth(m'))]_vars

\* in a one-line viewport the browser shows the second of two threads from the
\* top, after the first one was shown as well
C16_Witness ==
    /\ pc = "tui"
    /\ m.ready
    /\ m.vpHeight = 1
    /\ m.threads.len = 2
    /\ m.index = 1
    /\ m.yOffset = 0
    /\ \A i \in 1..2 : visible[i].comments > 0
                        /\ \E e \in m.contentCache : e.id = visible[i].id
    /\ m.content.thread = visible[2]

\* C17: whatever glamour does, every comment body of every content the browser
\* obtains is rendered by glamour or by the plain-text engine, by the latter
\* when styling is disabled or no renderer could be constructed for the width;
\* no handler panics, and the outcomes of an event differ neither in index, mode
\* and visible list nor in whether the browser goes on
C17_PlainFallback ==
    pc = "tui" =>
        /\ \A r \in threadContent(heap, m) :
              /\ ~r.panic
              /\ \A i \in DOMAIN r.content.how :
                    /\ r.content.how[i] \in {"markdown", "plain"}
                    /\ ~styled => r.content.how[i] = "plain"
                    /\ rendererWidth(r.content.width) \notin r.m.rendererCache => r.content.how[i] = "plain"
        /\ \A msg \in Msgs : \A r1, r2 \in Update(heap, m, msg) :
              /\ ~r1.panic
              /\ r1.quit = r2.quit
              /\ r1.m.index = r2.m.index
              /\ r1.m.status = r2.m.status
              /\ Elems(r1.heap, r1.m.threads) = Elems(r2.heap, r2.m.threads)

\* in a styled session the browser shows a thread whose first comment glamour
\* rendered and whose reply fell back to plain text after a failed Render
C17_Witness ==
    /\ pc = "tui"
    /\ styled
    /\ faults = 1
    /\ m.content.kind = "thread"
    /\ m.content.how = <<"markdown", "plain">>
    /\ rendererWidth(m.content.width) \in m.rendererCache

\* the texts of output lines
Texts(out) == [k \in 1..Len(out) |-> out[k].text]

\* no line of the body opens or closes a code fence
FenceFree(body) ==
    \A k \in 1..Len(Split(body, "\n")) : ~HasPrefix(TrimSpace(Split(body, "\n")[k]), fence)

\* the text of an output line is the indent and one word
SingleWord(text, indent) ==
    /\ Len(text) > Len(indent)
    /\ \A k \in (Len(indent) + 1)..Len(text) : ~IsSpace(text[k])

\* every output line is at most `limit` bytes long, unless it is a single word
LinesWithin(limit) ==
    \A k \in 1..Len(wrap.out) :
        \/ Len(wrap.out[k].text) <= limit
        \/ SingleWord(wrap.out[k].text, wrap.indent)

\* C18 as stated: for a body without code fences every output line is at most
\* W columns long, indent included, unless it holds a single word
C18_WithinWidth ==
    wrap.done /\ FenceFree(wrap.body) => LinesWithin(wrap.width)

\* C18: for a body without code fences every output line is at most
\* max(W, len(indent) + 20) columns long, indent included, unless it holds a
\* single word
C18_WithinFlooredWidth ==
    wrap.done /\ FenceFree(wrap.body) =>
        LinesWithin(IF wrap.width > Len(wrap.indent) + minTextWidth
                    THEN wrap.width ELSE Len(wrap.indent) + minTextWidth)

\* at a width above the floor a paragraph was wrapped into several lines, one
\* of them a single word too long for the width
C18_Witness ==
    /\ wrap.done
    /\ FenceFree(wrap.body)
    /\ wrap.width = 22
    /\ Len(wrap.out) >= 2
    /\ \A k \in 1..Len(wrap.out) : wrap.out[k].kind = "wrapped"
    /\ \E k \in 1..Len(wrap.out) : Len(wrap.out[k].text) > wrap.width

\* the words of the lines of the body that neither delimit a fence nor lie in
\* one, from line i on
RECURSIVE ProseWords(_, _, _)
ProseWords(lines, i, inFence) ==
    IF i > Len(lines) THEN <<>>
    ELSE IF HasPrefix(TrimSpace(lines[i]), fence) THEN ProseWords(lines, i + 1, ~inFence)
    ELSE IF inFence THEN ProseWords(lines, i + 1, inFence)
    ELSE Fields(lines[i]) \o ProseWords(lines, i + 1, inFence)

\* the words of the wrapped lines of an output, from line k on
RECURSIVE WrappedWords(_, _)
WrappedWords(out, k) ==
    IF k > Len(out) THEN <<>>
    ELSE IF out[k].kind = "wrapped" THEN Fields(out[k].text) \o WrappedWords(out, k + 1)
    ELSE WrappedWords(out, k + 1)

\* C19: the words of the wrapped output lines are the words of the non-fence
\* lines of the body, each once and in the original order
C19_WordsKept ==
    wrap.done => WrappedWords(wrap.out, 1) = ProseWords(Split(wrap.body, "\n"), 1, FALSE)

\* a body of two prose lines and a fence line: the prose words are wrapped, the
\* fence line is verbatim
C19_Witness ==
    /\ wrap.done
    /\ Len(WrappedWords(wrap.out, 1)) >= 2
    /\ Len(Split(wrap.body, "\n")) >= 2
    /\ \E k \in 1..Len(wrap.out) : wrap.out[k].kind = "verbatim"

\* C20: wrapPlainText returns at least one line, and for a body that is empty or
\* newlines only exactly one line, the indent
C20_AtLeastOneLine ==
    wrap.done =>
        /\ Len(wrap.out) >= 1
        /\ (\A k \in 1..Len(wrap.body) : wrap.body[k] = "\n") =>
               Texts(wrap.out) = <<wrap.indent>>

\* a body of newlines only gave the two-space indent as its one line
C20_Witness ==
    /\ wrap.done
    /\ Len(wrap.body) >= 2
    /\ \A k \in 1..Len(wrap.body) : wrap.body[k] = "\n"
    /\ wrap.indent = <<" ", " ">>
    /\ Texts(wrap.out) = <<wrap.indent>>

\* the closed code fences of the body: for each opening delimiter that has a
\* closing one, the lines strictly between the two, from line i on
RECURSIVE FencedLines(_, _, _, _)
FencedLines(lines, i, open, cur) ==
    IF i > Len(lines) THEN <<>>
    ELSE IF HasPrefix(TrimSpace(lines[i]), fence)
    THEN IF open THEN <<cur>> \o FencedLines(lines, i + 1, FALSE, <<>>)
         ELSE FencedLines(lines, i + 1, TRUE, <<>>)
    ELSE IF open THEN FencedLines(lines, i + 1, TRUE, Append(cur, lines[i]))
    ELSE FencedLines(lines, i + 1, FALSE, <<>>)

\* output line k is an emitted delimiter line
EmittedDelimiter(out, k) ==
    out[k].kind = "verbatim" /\ HasPrefix(TrimSpace(out[k].text), fence)

\* the texts of the output lines strictly between an emitted opening delimiter
\* and the emitted closing one, for each such pair, from line k on
RECURSIVE EmittedBlocks(_, _, _, _)
EmittedBlocks(out, k, open, cur) ==
    IF k > Len(out) THEN <<>>
    ELSE IF EmittedDelimiter(out, k)
    THEN IF open THEN <<cur>> \o EmittedBlocks(out, k + 1, FALSE, <<>>)
         ELSE EmittedBlocks(out, k + 1, TRUE, <<>>)
    ELSE IF open THEN EmittedBlocks(out, k + 1, TRUE, Append(cur, out[k].text))
    ELSE EmittedBlocks(out, k + 1, FALSE, <<>>)

\* C21: for any width, the output lines between the two emitted delimiter
\* lines of a closed code fence are exactly indent+line for the input lines
\* between the delimiters, in the same order and the same number
C21_FenceVerbatim ==
    wrap.done =>
        LET blocks == FencedLines(Split(wrap.body, "\n"), 1, FALSE, <<>>)
        IN EmittedBlocks(wrap.out, 1, FALSE, <<>>) =
              [b \in 1..Len(blocks) |->
                  [k \in 1..Len(blocks[b]) |-> wrap.indent \o blocks[b][k]]]

\* C22: when the geometry probe fails at startup the browser does not become
\* an interactive browser: the event loop is never entered without a geometry
\* (no resize event occurs, so a browser that is not ready is one whose probe
\* failed), and no key event is served in such a state
C22_ProbeFailureFatal ==
    ~m.ready => pc # "tui" /\ ~ENABLED KeyF /\ ~ENABLED KeyQuit

\* C23: a quit key (q, escape, interrupt) is served in every state of the event
\* loop, Empty and not-yet-ready included; it ends the loop and leaves the
\* model (index, mode, visible list, cache) as it was; no other step ends the
\* loop, and nothing is served after it
C23_QuitTerminates ==
    /\ [](pc = "tui" =>
             \A msg \in Msgs : \A r \in Update(heap, m, msg) :
                 r.quit = (msg.type = "KeyMsg" /\ msg.key \in {"q", "esc", "ctrl+c"}))
    /\ [](pc = "quit" => ~ENABLED Session)
    /\ [][pc = "tui" =>
             /\ KeyQuit => /\ pc' = "quit"
                           /\ m' = m
                           /\ Elems(heap', m'.threads) = visible
             /\ pc' # "tui" => KeyQuit]_vars

\* the browser was quit in the Empty state a filter cycle led to, with the
\* content rendered before still in the cache
C23_Witness ==
    /\ pc = "quit"
    /\ m.ready
    /\ m.threads.len = 0
    /\ m.allThreads.len > 0
    /\ m.contentCache # {}

\* C24: a key other than quit, next, prev, first, last and cycle-filter goes
\* to the viewport (the down key scrolls a viewport that has lines below by one
\* line) and leaves index, mode, visible list, all-threads list, width, height
\* and the render caches as they were; the event loop goes on
C24_OtherKeys ==
    [][KeyOther =>
          /\ pc' = "tui"
          /\ m'.index = m.index
          /\ m'.status = m.status
          /\ m'.threads = m.threads
          /\ Elems(heap', m'.threads) = visible
          /\ m'.allThreads = m.allThreads
          /\ Elems(heap', m'.allThreads) = allThreads
          /\ m'.width = m.width /\ m'.height = m.height
          /\ m'.contentCache = m.contentCache
          /\ m'.rendererCache = m.rendererCache
          /\ m'.content = m.content
          /\ m.vpKeys /\ m.yOffset < maxYOffset(m) /\ m'.yOffset > m.yOffset
                => m'.yOffset = m.yOffset + 1]_vars

\* the viewport was scrolled down on the second thread of a filtered list, in
\* a browser that has rendered threads
C24_Witness ==
    /\ pc = "tui"
    /\ m.ready
    /\ m.yOffset >= 1
    /\ m.index >= 1
    /\ m.threads.arr # m.allThreads.arr
    /\ m.contentCache # {}

\* a resize event for `size` is delivered
ResizeTo(size) ==
    Deliver([type |-> "WindowSizeMsg", key |-> "", width |-> size[1], height |-> size[2]])

\* what a resize step to w columns and h rows does, the content of a thread
\* without an entry being cached for every thread (everyThread) or for the
\* threads that have an ID
Resized(w, h, everyThread) ==
    /\ pc' = "tui"
    /\ m'.ready
    /\ m'.width = w /\ m'.height = h
    /\ m'.vpWidth = w /\ m'.vpHeight = viewportHeight(h)
    /\ m'.index = m.index
    /\ m'.status = m.status
    /\ m'.threads = m.threads /\ Elems(heap', m'.threads) = visible
    /\ m'.allThreads = m.allThreads /\ Elems(heap', m'.allThreads) = allThreads
    /\ ContentOf(m'.content, m'.threads.len, CurrentOf(heap', m'), w)
    /\ m.threads.len > 0 =>
          LET id == CurrentOf(heap, m).id
          IN /\ \A e \in m.contentCache :
                   e.id = id /\ e.width = w /\ e.content # BlankContent
                       => m'.content = e.content /\ m'.contentCache = m.contentCache
             /\ everyThread \/ id # 0 =>
                   [id |-> id, width |-> w, content |-> m'.content] \in m'.contentCache

\* a resize event with the dimensions a ready browser has changes nothing
SameSizeIgnored ==
    pc = "tui" /\ m.ready =>
        \A r \in Update(heap, m, [type |-> "WindowSizeMsg", key |-> "",
                                  width |-> m.width, height |-> m.height]) :
            r.m = m /\ r.heap = heap /\ ~r.quit /\ ~r.panic

\* C25 as stated: a resize to new dimensions stores them, sizes the viewport,
\* shows the current thread's content at the new width and has it in the cache
\* afterwards, keeping index, mode and both lists; a resize to the current
\* dimensions of a ready browser changes nothing
C25_ResizeCachesAll ==
    /\ []SameSizeIgnored
    /\ [][\A size \in TermSizes :
             ResizeTo(size) /\ ~(m.ready /\ size = <<m.width, m.height>>)
                 => Resized(size[1], size[2], TRUE)]_vars

\* C25: the same, the content being in the cache afterwards when the current
\* thread has a non-empty ID
C25_Resize ==
    /\ []SameSizeIgnored
    /\ [][\A size \in TermSizes :
             ResizeTo(size) /\ ~(m.ready /\ size = <<m.width, m.height>>)
                 => Resized(size[1], size[2], FALSE)]_vars

\* a browser showing a thread with replies has been resized: the thread is
\* cached at both terminal widths and shown at the narrow one in a one-line
\* viewport
C25_Witness ==
    /\ pc = "tui"
    /\ m.ready
    /\ m.width = 40 /\ m.height = 2
    /\ m.vpWidth = 40 /\ m.vpHeight = 1
    /\ m.content.kind = "thread"
    /\ m.content.width = 40
    /\ \A size \in TermSizes :
          \E e \in m.contentCache : e.id = m.content.thread.id /\ e.width = size[1]

\* C26: whenever the browser is ready, at startup and after every resize, the
\* viewport is max(1, rows - 2 header lines - 1 footer line) lines high, so
\* never less than one line
C26_ViewportHeight ==
    Browsing /\ m.ready =>
        /\ m.vpHeight = (IF m.height - 2 - 1 > 1 THEN m.height - 2 - 1 ELSE 1)
        /\ m.vpHeight >= 1
        /\ headerLines = 2 /\ footerLines = 1

\* a browser whose geometry probe failed rendered a thread at the default
\* width and was then made ready by a resize to a terminal of two rows
C26_Witness ==
    /\ pc = "tui"
    /\ m.ready
    /\ m.height = 2
    /\ m.vpHeight = 1
    /\ \E e \in m.contentCache : e.width = defaultWidth

\* the line part the claimed precedence selects for the thread, <<>> when it
\* selects none
LinePart(t) ==
    IF t.startLine.present /\ t.line.present /\ t.startLine.val # t.line.val
    THEN Itoa(t.startLine.val) \o <<"-">> \o Itoa(t.line.val)
    ELSE IF t.line.present THEN Itoa(t.line.val)
    ELSE IF t.originalLine.present THEN Itoa(t.originalLine.val)
    ELSE <<>>

HasSuffix(str, suffix) ==
    Len(str) >= Len(suffix) /\ SubSeq(str, Len(str) - Len(suffix) + 1, Len(str)) = suffix

\* C27 as stated, for every thread: the location shown ends with the line part
\* the precedence selects (range, else line, else original line), and nothing
\* at all is shown when it selects none
C27_LocationByLines ==
    info.done =>
        IF LinePart(info) = <<>> THEN info.out = <<>>
        ELSE HasSuffix(info.out, <<":">> \o LinePart(info) \o <<"]">>)

\* C27: for a thread with a path the location shown is " [path:part]", the
\* part being start-line "-" line when both are present and differ, otherwise
\* line when present, otherwise original line when present, and " [path]" when
\* none is; for a thread without a path nothing is shown
C27_LocationPrecedence ==
    info.done =>
        IF info.path = <<>> THEN info.out = <<>>
        ELSE IF LinePart(info) = <<>>
        THEN info.out = <<" ", "[">> \o info.path \o <<"]">>
        ELSE info.out = <<" ", "[">> \o info.path \o <<":">> \o LinePart(info) \o <<"]">>

\* a thread with a path whose start line equals its line and whose original
\* line is another one is located by its line alone
C27_Witness ==
    /\ info.done
    /\ info.path = <<"d", "/", "f">>
    /\ info.startLine = lineOf(2)
    /\ info.line = lineOf(2)
    /\ info.originalLine = lineOf(1)
    /\ info.out = <<" ", "[", "d", "/", "f", ":", "2", "]">>

\* runTUI has validated --status and has not started the fetch, or has
\* returned an error of its own before the fetch
Parsed ==
    \/ pc \in {"pr", "repo"}
    \/ pc = "exit" /\ retErr \in {"err-status", "err-pr", "err-repo", "err-token"}

\* runTUI returned the error of the --status check without a derivation, a fetch
\* or a browser
Rejected ==
    /\ pc = "exit"
    /\ retErr = "err-status"
    /\ args.gh = <<>>
    /\ served = <<>>
    /\ fetched = NilSlice
    /\ m = ZeroModel
    /\ ~ENABLED Run

\* the mode is one of the four in the browser and in runTUI once it is validated
ModeEnumerated ==
    /\ Browsing => m.status \in {"all", "unresolved", "resolved", "resolved-no-reply"}
    /\ pc \notin {"args", "exit"} =>
          status \in {"all", "unresolved", "resolved", "resolved-no-reply"}

\* C28 as stated: the mode is one of the four values in every state; an empty
\* --status becomes All, and every other --status that is not one of the four
\* values is rejected with an error before any fetch
C28_ModeAsTyped ==
    /\ ModeEnumerated
    /\ Parsed =>
          IF args.statusFlag = <<>> THEN retErr # "err-status" /\ status = "all"
          ELSE IF \E name \in Statuses : statusText[name] = args.statusFlag
          THEN retErr # "err-status" /\ statusText[status] = args.statusFlag
          ELSE Rejected

\* C28: the mode is one of the four values in every state; a --status that is
\* empty once surrounding white space is trimmed becomes All, one that spells a
\* mode in any letter case becomes that mode, and every other is rejected with
\* an error before any fetch; every filter cycle leads to one of the four values
C28_ModeEnumerated ==
    /\ ModeEnumerated
    /\ Parsed =>
          LET typed == ToLower(TrimSpace(args.statusFlag))
          IN IF typed = <<>> THEN retErr # "err-status" /\ status = "all"
             ELSE IF \E name \in Statuses : statusText[name] = typed
             THEN retErr # "err-status" /\ statusText[status] = typed
             ELSE Rejected

\* a run that parsed its flags has fetched threads and its browser has been
\* cycled from the mode it started in to the mode before it
C28_Witness ==
    /\ pc = "tui"
    /\ status = "unresolved"
    /\ m.status = "all"
    /\ m.allThreads.len > 0

\* runTUI has passed the derivation, or has returned an error from there on
Derived ==
    \/ pc = "repo"
    \/ pc = "exit" /\ retErr \in {"err-pr", "err-repo", "err-token"}

\* C29: the number is derived from the checkout exactly when --pr is not
\* positive; the derivation gives the number the gh tool printed when that is
\* positive, and fails when the number is 0 or the output is not JSON (or the
\* tool fails); when it fails runTUI returns an error and fetches nothing
C29_PrDerived ==
    /\ Derived =>
          IF args.prFlag > 0
          THEN args.gh = <<>> /\ args.pr = args.prFlag /\ retErr # "err-pr"
          ELSE /\ Len(args.gh) = 1
               /\ IF args.gh[1].exit = 0 /\ args.gh[1].json /\ args.gh[1].number > 0
                  THEN retErr # "err-pr" /\ args.pr = args.gh[1].number
                  ELSE pc = "exit" /\ retErr = "err-pr"
    /\ pc = "exit" /\ retErr = "err-pr" =>
          /\ served = <<>>
          /\ fetched = NilSlice
          /\ m = ZeroModel
          /\ ~ENABLED Run

\* without --pr the number the gh tool printed became the number of the run
C29_Witness ==
    /\ pc = "repo"
    /\ args.prFlag = 0
    /\ args.gh # <<>>
    /\ args.gh[1].number = MaxPr
    /\ args.pr = MaxPr

\* the response ends the loop: an error, no further page, or no cursor to go on with
Stops(resp) ==
    \/ resp.err # "nil"
    \/ ~resp.hasNextPage
    \/ resp.endCursor \in {NilCursor, EmptyCursor}

\* C30: the first request carries an empty (absent) cursor, request k+1 carries exactly the
\* end cursor of response k, no request follows a response that is an error,
\* reports no next page or has an empty or absent cursor, and the fetch returns
\* right after the first such response
C30_RequestChain ==
    /\ served # <<>> => served[1].after = NilCursor
    /\ \A k \in 1..(Len(served) - 1) :
          /\ served[k + 1].after = served[k].endCursor
          /\ ~Stops(served[k])
    /\ pc = "fetch" /\ served # <<>> =>
          /\ ~Stops(served[Len(served)])
          /\ after = served[Len(served)].endCursor
    /\ pc \in {"returned", "exit"} => served # <<>> /\ Stops(served[Len(served)])

\* the fetch returned after a second request that carried the cursor of the
\* first page and was answered by a page with no further page
C30_Witness ==
    /\ pc = "returned"
    /\ retErr = NoErr
    /\ Len(served) = 2
    /\ served[1].endCursor = cursorOf(1)
    /\ served[2].after = cursorOf(1)
    /\ ~served[2].hasNextPage
    /\ served[2].endCursor = cursorOf(2)

\* the viewport of model mm holds the content of the thread at its current
\* position at its current width, or the no-threads message
ShowsCurrent(h, mm) ==
    ContentOf(mm.content, mm.threads.len, CurrentOf(h, mm), effectiveWidth(mm))

RenderWidths == {10, minRendererWidth, defaultWidth} \cup {size[1] : size \in TermSizes}

\* C32: a renderer constructed for a width is kept and returned, without a new
\* construction, by every later call for that width; a failed construction
\* leaves the renderer cache as it was, so the next call for that width
\* constructs again and the calls for every other width give what they gave
C32_RendererMemo ==
    /\ [](Browsing =>
             \A w \in RenderWidths :
                IF rendererWidth(w) \in m.rendererCache
                THEN rendererForWidth(m, w)
                         = {[m |-> m, renderer |-> rendererWidth(w), faults |-> 0]}
                ELSE /\ \E r \in rendererForWidth(m, w) :
                           /\ r.renderer = rendererWidth(w)
                           /\ r.m.rendererCache = m.rendererCache \cup {rendererWidth(w)}
                           /\ rendererForWidth(r.m, w)
                                  = {[m |-> r.m, renderer |-> rendererWidth(w), faults |-> 0]}
                     /\ \E r \in rendererForWidth(m, w) : r.renderer = nilRenderer
                     /\ \A r \in rendererForWidth(m, w) :
                           r.renderer = nilRenderer =>
                               /\ r.m = m
                               /\ r.faults = 1
                               /\ \A w2 \in RenderWidths :
                                     rendererForWidth(r.m, w2) = rendererForWidth(m, w2))
    /\ [][Browsing =>
             /\ m.rendererCache \subseteq m'.rendererCache
             /\ m'.rendererCache \ m.rendererCache \subseteq {rendererWidth(effectiveWidth(m'))}]_vars

\* a construction failed at the width the browser shows a thread at, after one
\* had succeeded at another width: the renderer of the other width is kept and
\* the current width has none
C32_Witness ==
    /\ pc = "tui"
    /\ styled
    /\ faults = 1
    /\ Produced
    /\ m.content.how = <<"plain", "plain">>
    /\ m.rendererCache # {}
    /\ rendererWidth(effectiveWidth(m)) \notin m.rendererCache

\* an output with each run of wrapped lines (one flushed paragraph) reduced to
\* a single mark, from line k on
RECURSIVE Skeleton(_, _)
Skeleton(out, k) ==
    IF k > Len(out) THEN <<>>
    ELSE IF out[k].kind # "wrapped" THEN <<out[k]>> \o Skeleton(out, k + 1)
    ELSE IF k > 1 /\ out[k - 1].kind = "wrapped" THEN Skeleton(out, k + 1)
    ELSE <<[text |-> <<>>, kind |-> "wrapped"]>> \o Skeleton(out, k + 1)

\* the layout the reflow engine is to give the lines of a body from line i on:
\* `pending` says that a paragraph is being collected, `some` that something
\* was emitted, `blank` that the last line emitted is the indent alone
RECURSIVE FenceLayout(_, _, _, _, _, _, _)
FenceLayout(lines, i, indent, inFence, pending, some, blank) ==
    LET flush == IF pending THEN <<[text |-> <<>>, kind |-> "wrapped"]>> ELSE <<>>
        separator == IF pending \/ (some /\ ~blank)
                     THEN <<[text |-> indent, kind |-> "blank"]>> ELSE <<>>
    IN IF i > Len(lines) THEN flush
       ELSE IF HasPrefix(TrimSpace(lines[i]), fence)
       THEN flush \o separator \o <<[text |-> indent \o lines[i], kind |-> "verbatim"]>>
            \o FenceLayout(lines, i + 1, indent, ~inFence, FALSE, TRUE, FALSE)
       ELSE IF inFence
       THEN <<[text |-> indent \o lines[i], kind |-> "verbatim"]>>
            \o FenceLayout(lines, i + 1, indent, TRUE, FALSE, TRUE, lines[i] = <<>>)
       ELSE IF TrimSpace(lines[i]) = <<>>
       THEN flush \o <<[text |-> indent, kind |-> "blank"]>>
            \o FenceLayout(lines, i + 1, indent, FALSE, FALSE, TRUE, TRUE)
       ELSE FenceLayout(lines, i + 1, indent, FALSE, TRUE, some, blank)

\* C33: every line whose trimmed content starts with three backquotes, opening
\* or closing, comes after the lines of the pending paragraph, after one
\* indent-only line when something was emitted and the last line emitted is
\* not the indent alone, is emitted as indent+line and toggles the fence
\* state; every line in a fence, closed or not, is emitted as indent+line
C33_FenceLines ==
    wrap.done =>
        Skeleton(wrap.out, 1)
            = FenceLayout(Split(TrimRight(wrap.body, "\n"), "\n"), 1, wrap.indent,
                          FALSE, FALSE, FALSE, FALSE)

\* a paragraph, then a fence that is opened after a separator line and never
\* closed, with a line of text in it
C33_Witness ==
    /\ wrap.done
    /\ wrap.indent # <<>>
    /\ Len(wrap.out) = 4
    /\ [k \in 1..4 |-> wrap.out[k].kind] = <<"wrapped", "blank", "verbatim", "verbatim">>
    /\ HasPrefix(TrimSpace(wrap.out[3].text), fence)
    /\ ~HasPrefix(TrimSpace(wrap.out[4].text), fence)
    /\ TrimSpace(wrap.out[4].text) # <<>>

\* the lines are a greedy filling of the words at the given width budget: the
\* lines hold the words, in order and unsplit, separated by single spaces; a
\* line of several words is within the budget; the first word of the next
\* line would not have fitted after a space; a word longer than the budget
\* has a line of its own
Greedy(lines, words, width) ==
    LET ws == [k \in 1..Len(lines) |-> Fields(lines[k])]
    IN /\ Len(lines) >= 1
       /\ Concat(ws) = words
       /\ \A k \in 1..Len(lines) :
             /\ Len(ws[k]) >= 1
             /\ lines[k] = Join(ws[k], <<" ">>)
             /\ Len(ws[k]) > 1 => Len(lines[k]) <= width
             /\ (\E j \in 1..Len(ws[k]) : Len(ws[k][j]) > width) => Len(ws[k]) = 1
             /\ k < Len(lines) => Len(lines[k]) + 1 + Len(ws[k + 1][1]) > width
       /\ ws[1][1] = words[1]

\* the body is one paragraph: no fence line and no blank line
OneParagraph(body) ==
    LET lines == Split(TrimRight(body, "\n"), "\n")
    IN \A k \in 1..Len(lines) :
          TrimSpace(lines[k]) # <<>> /\ ~HasPrefix(TrimSpace(lines[k]), fence)

\* the width budget wrapPlainText gives wrapText
Budget == maxWidthOf(wrap.indent, wrap.width) - Len(wrap.indent)

\* C34: wrapText fills lines greedily: the first word starts the first line,
\* a following word is appended after one space exactly when the line stays
\* within the width budget and otherwise starts a new line, and a word longer
\* than the budget is not split and has a line of its own; for every
\* paragraph wrapPlainText hands to wrapText, at the budget it hands it
C34_GreedyWrap ==
    wrap.done /\ OneParagraph(wrap.body) =>
        Greedy([k \in 1..Len(wrap.out) |->
                   SubSeq(wrap.out[k].text, Len(wrap.indent) + 1, Len(wrap.out[k].text))],
               Fields(wrap.body), Budget)

\* a paragraph of three words was wrapped at a budget of 20: the second word
\* was appended to the first, the third is longer than the budget and has the
\* second line to itself
C34_Witness ==
    /\ wrap.done
    /\ OneParagraph(wrap.body)
    /\ Budget = minTextWidth
    /\ Len(Fields(wrap.body)) = 3
    /\ Len(wrap.out) = 2
    /\ Len(Fields(wrap.out[1].text)) = 2
    /\ Len(Fields(wrap.out[2].text)) = 1
    /\ Len(Fields(wrap.out[2].text)[1]) > Budget

\* C35: a filter-cycle event never increases the index and leaves it 0 when
\* the new visible list is empty; four filter-cycle events in a row restore
\* the visible list and lead to an index that is at most the index before
C35_IndexNotRestored ==
    pc = "tui" =>
        /\ \A r \in cycleFilter(heap, m) :
              /\ r.m.index <= m.index
              /\ r.m.threads.len = 0 => r.m.index = 0
        /\ \A r \in cycle4(heap, m) :
              /\ Elems(r.heap, r.m.threads) = visible
              /\ r.m.index <= m.index

\* the browser stands on the second thread of a visible list that four
\* filter-cycle events restore, and every such round leaves it on the first
C35_Witness ==
    /\ pc = "tui"
    /\ m.threads.len = 2
    /\ m.index = 1
    /\ \A r \in cycle4(heap, m) :
          /\ Elems(r.heap, r.m.threads) = visible
          /\ r.m.index = 0
    /\ \E r \in cycleFilter(heap, m) : r.m.threads.len = 1 /\ r.m.index = 0

\* the content has a comment body that the plain-text engine produced
Fallback(content) ==
    content.kind = "thread" /\ \E j \in DOMAIN content.how : content.how[j] = "plain"

\* every later request on model mm gives content c without a call of the
\* rendering pipeline or of glamour, also when a renderer for the width has
\* been constructed in the meantime
ServedAgain(mm, c) ==
    \A later \in {mm, [mm EXCEPT !.rendererCache = @ \cup {rendererWidth(effectiveWidth(mm))}]} :
        \A r \in threadContent(heap, later) :
            /\ r.content = c
            /\ r.calls = 0
            /\ r.faults = 0
            /\ r.m = later

\* C36 as stated, for every thread: content with a plain-text fallback body is
\* stored in the cache, and every later visit to the thread at that width gets
\* that content without another attempt at markdown rendering
C36_FallbackCachedAlways ==
    pc = "tui" =>
        \A i \in 1..m.threads.len : \A w \in RenderWidths :
            \A r \in request(i, w) :
                Fallback(r.content) => ServedAgain(r.m, r.content)

\* C36: content with a plain-text fallback body, produced for a thread with a
\* non-empty ID, is stored in the cache under (ID, width), and every later
\* visit to the thread at that width gets that content without another
\* attempt at markdown rendering, even if the renderer would now succeed
C36_FallbackCached ==
    pc = "tui" =>
        \A i \in 1..m.threads.len : \A w \in RenderWidths :
            \A r \in request(i, w) :
                Fallback(r.content) /\ visible[i].id # 0 =>
                    /\ [id |-> visible[i].id, width |-> effectiveWidth(r.m),
                        content |-> r.content] \in r.m.contentCache
                    /\ ServedAgain(r.m, r.content)

\* in a styled session the browser shows a thread with an ID whose reply fell
\* back to plain text after a failed Render; the content is in the cache, the
\* renderer of its width is there, and a new visit is served the fallback
C36_Witness ==
    /\ pc = "tui"
    /\ styled
    /\ m.ready
    /\ Produced
    /\ m.content.thread.id # 0
    /\ m.content.how = <<"markdown", "plain">>
    /\ rendererWidth(m.content.width) \in m.rendererCache
    /\ Cardinality(m.contentCache) >= 2
    /\ \A r \in threadContent(heap, m) : r.content = m.content /\ r.calls = 0

====
